---- MODULE Spec2Model ----
(***************************************************************************)
(* Model of the pipeline orchestrator (POST / of the "pipeline" function), *)
(* of the transcribe stage adapter it awaits, and of the extract and       *)
(* diagnose stage adapters called on their own (SpecExtract, SpecDiagnose).*)
(*                                                                         *)
(* Representation of JavaScript values:                                    *)
(*   - an optional value (possibly undefined) is a sequence of length 0    *)
(*     (undefined) or 1 (the value);                                       *)
(*   - a locale string is the sequence of its "-"-separated segments, i.e. *)
(*     exactly the array String.prototype.split("-") yields: "es-AR" is    *)
(*     <<"es","AR">> and the empty string is <<"">>;                       *)
(*   - other strings are TLA+ strings.                                     *)
(***************************************************************************)
EXTENDS Integers, Sequences, FiniteSets, TLC

VARIABLES
    env,        \* process.env as read by the handler: [PROVIDER]
    zodV4,      \* which zod major the build resolved (semantics of .default().optional())
    now,        \* value Date.now() returns
    pc,         \* position of the request handler
    body,       \* req.body of the request (undefined before it arrives)
    parsed,     \* result of PipelineBodySchema.safeParse(req.body)
    loc,        \* local variables of the handler
    trOut,      \* response of client.audio.transcriptions.create inside transcribeService
    trRes,      \* how the transcribeService call settled (undefined while pending)
    exRes,      \* how the extractService call settled
    dgRes,      \* how the diagnoseService call settled
    trCalls,    \* arguments of every transcribeService invocation
    exCalls,    \* arguments of every extractService invocation
    dgCalls,    \* arguments of every diagnoseService invocation
    callOrder,  \* names of the adapters in the order they were invoked
    responses,  \* every res.status(..).json(..) written
    escaped,    \* an exception left the handler
    spc,        \* position of a stage adapter called on its own ("off": none is)
    sreq,       \* the argument object the adapter was called with
    sreqAfter,  \* the same object as the adapter's validation left it
    sext,       \* what the external model answered (undefined while pending)
    snorm,      \* the model output after normalizeExtractionData
    sparses,    \* number of JSON.parse attempts on the backend text
    scalls,     \* number of invocations of the external model
    backends,   \* names of the completion backends diagnoseService invoked
    sout,       \* how the adapter call settled (undefined while pending)
    requests,   \* the handler state of each of the requests served concurrently
    ajvErrors   \* the errors property of the module-level validators

pipelineVars == <<env, zodV4, now, pc, body, parsed, loc, trOut, trRes, exRes,
                  dgRes, trCalls, exCalls, dgCalls, callOrder, responses, escaped>>

\* The state of a stage adapter called on its own
adapterVars == <<spc, sreq, sreqAfter, sext, snorm, sparses, scalls, sout>>

serviceVars == <<adapterVars, backends>>

\* The state of the handler serving several requests at once
concVars == <<requests, ajvErrors>>

vars == <<pipelineVars, serviceVars, concVars>>

----------------------------------------------------------------------------
\* Bounds

MaxClock == 1
Clock == 0..MaxClock

----------------------------------------------------------------------------
\* Optional values and the JavaScript operators on them

None == <<>>
Some(x) == <<x>>
IsSome(o) == Len(o) = 1
Get(o) == o[1]

\* JavaScript null: neither undefined nor a value (a sequence of length 2)
Null == <<"null", "null">>

\* a ?? b, with b an always-defined value
Nullish(o, d) == IF IsSome(o) THEN Get(o) ELSE d

----------------------------------------------------------------------------
\* Strings

EmptyLocale == <<"">>
esAR == <<"es", "AR">>

toLowerCase(s) ==
    CASE s = "ES" -> "es"
      [] s = "EN" -> "en"
      [] s = "FR" -> "fr"
      [] s = "AR" -> "ar"
      [] s = "US" -> "us"
      [] s \in {"OpenAI", "OPENAI"} -> "openai"
      [] s = "Gemini" -> "gemini"
      [] OTHER -> s

trim(s) ==
    CASE s = " " -> ""
      [] s = " es" -> "es"
      [] OTHER -> s

\* `corr-${Date.now()}`
GenCorrelationId(t) == "corr-" \o ToString(t)

----------------------------------------------------------------------------
\* Request bodies the client may send

CallerLanguages == {esAR, <<"EN", "US">>, <<"fr", "FR">>, EmptyLocale}
CallerCorrelationIds == {"corr-1", ""}
Texts == {"", " ", "Paciente"}
AudioTypes == {"url", "base64", "file"}
AudioValues == {"", "QUJD"}
Providers == {"gemini", "openai", "azure"}

OptOf(S) == {None} \cup {Some(x) : x \in S}

Audios == [type : AudioTypes, value : AudioValues]

\* {input: {...}, options: {provider}}; hasInput = FALSE is a body such as {foo: "bar"}
AllBodies ==
    [hasInput : BOOLEAN,
     text : OptOf(Texts),
     audio : OptOf(Audios),
     filename : OptOf({"a.mp3"}),
     language : OptOf(CallerLanguages),
     hint : OptOf({"consulta"}),
     correlationId : OptOf(CallerCorrelationIds),
     provider : OptOf(Providers)]

\* One representative of the bodies that differ only in fields the handler
\* never reads for them (a body without input, or with a malformed input or
\* provider, is rejected whatever its other fields hold)
Representative(b) ==
    /\ IsSome(b.filename) = IsSome(b.hint)
    /\ ~IsSome(b.audio) => ~IsSome(b.filename)
    /\ ~b.hasInput =>
          /\ ~IsSome(b.text) /\ ~IsSome(b.audio)
          /\ ~IsSome(b.language) /\ ~IsSome(b.correlationId)
    /\ (IsSome(b.audio) /\ Get(b.audio).value = "") => Get(b.audio).type = "url"
    /\ (IsSome(b.audio) /\ Get(b.audio).type = "file") => ~IsSome(b.text)
    /\ (IsSome(b.audio) /\ IsSome(b.text)) =>
          Get(b.audio).type = "url" /\ ~IsSome(b.filename) /\ Get(b.text) # " "
    /\ b.text = Some(" ") => ~IsSome(b.provider)
    /\ (IsSome(b.provider) /\ Get(b.provider) = "azure") =>
          ~IsSome(b.language) /\ ~IsSome(b.filename)

Bodies == {b \in AllBodies : Representative(b)}

----------------------------------------------------------------------------
\* Schemas (zod)

\* z.string().default(d).optional(): zod 3 lets undefined through untouched,
\* zod 4 applies the default of the inner schema
DefaultOptional(v, d) == IF ~IsSome(v) /\ zodV4 THEN Some(d) ELSE v

TextInputOk(b) == IsSome(b.text) /\ Get(b.text) # ""

AudioInputOk_NoMinLength(b) ==
    /\ IsSome(b.audio)
    /\ Get(b.audio).type \in {"url", "base64"}

AudioInputOk(b) ==
    /\ IsSome(b.audio)
    /\ Get(b.audio).type \in {"url", "base64"}
    /\ Get(b.audio).value # ""

\* (mutant) z.object keeps the keys TextInputSchema does not declare
TextInputSchema_Passthrough(b, t) ==
    [text |-> b.text,
     audio |-> b.audio,
     filename |-> b.filename,
     language |-> DefaultOptional(b.language, esAR),
     hint |-> b.hint,
     correlationId |-> DefaultOptional(b.correlationId, GenCorrelationId(t))]

\* parsed.data.input for a body matching TextInputSchema (undeclared keys are stripped)
TextInputSchema(b, t) ==
    [text |-> b.text,
     audio |-> None,
     filename |-> None,
     language |-> DefaultOptional(b.language, esAR),
     hint |-> None,
     correlationId |-> DefaultOptional(b.correlationId, GenCorrelationId(t))]

\* parsed.data.input for a body matching AudioInputSchema
AudioInputSchema(b, t) ==
    [text |-> None,
     audio |-> b.audio,
     filename |-> b.filename,
     language |-> DefaultOptional(b.language, esAR),
     hint |-> b.hint,
     correlationId |-> DefaultOptional(b.correlationId, GenCorrelationId(t))]

\* parsed.error.issues
Issues(b) ==
    (IF ~b.hasInput THEN {"input: Required"} ELSE {})
    \cup (IF b.hasInput /\ ~TextInputOk(b) /\ ~AudioInputOk(b)
          THEN {"input: invalid_union"} ELSE {})
    \cup (IF IsSome(b.provider) /\ Get(b.provider) \notin {"gemini", "openai"}
          THEN {"options.provider: invalid_enum_value"} ELSE {})

NoInput ==
    [text |-> None, audio |-> None, filename |-> None, language |-> None,
     hint |-> None, correlationId |-> None]

\* PipelineBodySchema.safeParse(req.body) at clock value t; z.union takes the
\* first member that parses
PipelineBodySchema(b, t) ==
    IF Issues(b) # {}
    THEN [success |-> FALSE, issues |-> Issues(b), input |-> NoInput, provider |-> None]
    ELSE [success |-> TRUE,
          issues |-> {},
          input |-> IF TextInputOk(b) THEN TextInputSchema(b, t) ELSE AudioInputSchema(b, t),
          provider |-> b.provider]

----------------------------------------------------------------------------
\* Language helpers

SUPPORTED_LANGS == {"es", "en"}

\* locale?.split("-")[0]?.toLowerCase() || ""
primaryLang(locale) ==
    IF ~IsSome(locale) THEN "" ELSE toLowerCase(Get(locale)[1])

\* transcribe/service.ts: "es-AR" -> "es"; undefined for a falsy input or primary
normalizeLanguage(input) ==
    IF ~IsSome(input) \/ Get(input) = EmptyLocale THEN None
    ELSE IF trim(Get(input)[1]) = "" THEN None
    ELSE Some(trim(Get(input)[1]))

----------------------------------------------------------------------------
\* transcribe/service.ts

\* What a thrown value carries in its message property (undefined when the
\* thrown value has none)
Thrown == {None, Some(""), Some("boom")}

Threw(e) == [threw |-> TRUE, err |-> e, value |-> None]
Returned(v) == [threw |-> FALSE, err |-> None, value |-> Some(v)]

\* Response of client.audio.transcriptions.create (verbose_json)
WhisperOuts ==
    {o \in [text : {None, Some(""), Some("hola")},
            language : {None, Some(<<"en">>), Some(<<"spanish">>)}] :
        ~IsSome(o.text) => ~IsSome(o.language)}

\* What the world outside transcribeService does during one call
TranscribeWorlds ==
    {[fault |-> f, err |-> None, out |-> None] :
        f \in {"no_api_key", "fetch_status", "empty_audio"}}
    \cup {[fault |-> "create_rejects", err |-> e, out |-> None] : e \in Thrown}
    \cup {[fault |-> "none", err |-> None, out |-> Some(o)] : o \in WhisperOuts}

\* a || b || "" on strings, a and b being undefined or non-empty
DetectedOrLanguage(detected, language) ==
    IF IsSome(detected) THEN <<Get(detected)>>
    ELSE IF IsSome(language) THEN <<Get(language)>>
    ELSE EmptyLocale

transcribeService(input, w) ==
    IF w.fault = "no_api_key" THEN Threw(Some("Missing OPENAI_API_KEY"))
    ELSE IF input.audio.type = "url" /\ w.fault = "fetch_status"
    THEN Threw(Some("No se pudo descargar el audio: 404"))
    ELSE IF input.audio.type = "url" /\ w.fault = "empty_audio"
    THEN Threw(Some("Audio vacio o invalido"))
    ELSE IF w.fault = "create_rejects" THEN Threw(w.err)
    ELSE LET out == Get(w.out)
             language == normalizeLanguage(input.language)
             detected == normalizeLanguage(out.language)
         IN Returned([text |-> out.text,
                      language |-> Some(DetectedOrLanguage(detected, language)),
                      correlationId |-> input.correlationId])

\* The calls the world can answer for this input
WorldFor(input) ==
    {w \in TranscribeWorlds :
        /\ w.fault \in {"fetch_status", "empty_audio"} => input.audio.type = "url"}

----------------------------------------------------------------------------
\* extract/service.ts and diagnose/service.ts as the orchestrator sees them

ExtractionData ==
    {[patient |-> Some([age |-> Some(30), sex |-> Some("M")]),
      symptoms |-> Some(<<"dolor">>),
      onsetDays |-> Some(1),
      riskFlags |-> Some(<<>>),
      notes |-> Some("")],
     [patient |-> None,
      symptoms |-> Some(<<>>),
      onsetDays |-> None,
      riskFlags |-> Some(<<>>),
      notes |-> None]}

\* What extractWithLLM does during one call: throws, or returns validated data
ExtractWorlds == {Threw(e) : e \in Thrown} \cup {Returned(d) : d \in ExtractionData}

\* validateRequest: transcript a string of length >= 1, language and
\* correlationId strings (all three are strings when they come from the handler)
validateRequest(req) == req.transcript # ""

extractService(req, w) ==
    IF ~validateRequest(req) THEN Threw(Some("Bad request en extractService"))
    ELSE w

Diagnoses ==
    {[summary |-> "ok", differentials |-> <<>>, recommendations |-> <<>>, severity |-> "low"],
     [summary |-> "faringitis", differentials |-> <<"IRVA">>,
      recommendations |-> <<"reposo">>, severity |-> "moderate"]}

\* What generateDiagnosisJSON, the JSON parse and LlmOutputSchema.parse do
\* during one call: throw, or yield a validated diagnosis
DiagnoseWorlds == {Threw(e) : e \in Thrown} \cup {Returned(d) : d \in Diagnoses}

\* DiagnoseRequestSchema.parse(input) on the extraction
ExtractionSchemaOk(x) ==
    /\ IsSome(x.patient) /\ IsSome(Get(x.patient).age) =>
          Get(Get(x.patient).age) \in 0..130
    /\ IsSome(x.patient) /\ IsSome(Get(x.patient).sex) =>
          Get(Get(x.patient).sex) \in {"M", "F", "X"}
    /\ IsSome(x.onsetDays) => Get(x.onsetDays) >= 0

diagnoseService(req, w) ==
    IF ~ExtractionSchemaOk(req.extraction) THEN Threw(Some("ZodError"))
    ELSE w

\* (mutant) the provider flag is compared without lower-casing
generateDiagnosisJSON_CaseSensitive(environment) ==
    IF environment.PROVIDER = Some("openai") THEN "openai" ELSE "gemini"

\* generateDiagnosisJSON: the backend it calls,
\* (process.env.PROVIDER || "gemini").toLowerCase() === "openai"
generateDiagnosisJSON(environment) ==
    LET provider == toLowerCase(IF environment.PROVIDER \in {None, Some("")}
                                THEN "gemini" ELSE Get(environment.PROVIDER))
    IN IF provider = "openai" THEN "openai" ELSE "gemini"

\* The backends invoked once diagnoseService was called with req: none when
\* DiagnoseRequestSchema.parse throws
BackendsAfterCall(req) ==
    IF ExtractionSchemaOk(req.extraction)
    THEN Append(backends, generateDiagnosisJSON(env))
    ELSE backends

----------------------------------------------------------------------------
\* pipeline handler: responses

NoResponseFields ==
    [status |-> 0, ok |-> FALSE, step |-> None, error |-> None, details |-> {},
     correlationId |-> None, pipeline |-> None, transcript |-> None,
     extracted |-> None, diagnosis |-> None, provider |-> None]

ValidationResponse(issues) ==
    [NoResponseFields EXCEPT !.status = 400, !.step = Some("validation"),
                             !.error = Some("Invalid body"), !.details = issues]

TranscribeFailureResponse ==
    [NoResponseFields EXCEPT !.status = 500, !.step = Some("transcribe"),
                             !.error = Some("Transcription has no text")]

UnsupportedLanguageResponse(corrId) ==
    [NoResponseFields EXCEPT !.status = 400, !.error = Some("unsupported language"),
                             !.correlationId = Some(corrId)]

\* catch (e): e?.message ?? "Unexpected error"
CatchResponse_OrFalsy(e) ==
    [NoResponseFields EXCEPT
        !.status = 500, !.step = Some("unknown"),
        !.error = Some(IF IsSome(e) /\ Get(e) # "" THEN Get(e) ELSE "Unexpected error")]

CatchResponse(e) ==
    [NoResponseFields EXCEPT !.status = 500, !.step = Some("unknown"),
                             !.error = Some(Nullish(e, "Unexpected error"))]

\* (mutant) options?.provider ?? (process.env.PROVIDER || "gemini")
ResolveProvider_EnvOrFalsy(provider, environment) ==
    Nullish(provider,
            IF environment.PROVIDER \in {None, Some("")} THEN "gemini"
            ELSE Get(environment.PROVIDER))

\* options?.provider ?? process.env.PROVIDER ?? "gemini"
ResolveProvider(provider, environment) ==
    Nullish(provider, Nullish(environment.PROVIDER, "gemini"))

\* (mutant) the success response leaves the transcript out
SuccessResponse_NoTranscript(l, diagnosis, provider, t) ==
    [NoResponseFields EXCEPT
        !.status = 200,
        !.ok = TRUE,
        !.pipeline = Some([transcribe |-> l.transcribeMs,
                           extract |-> l.extractMs,
                           diagnose |-> t - l.t3,
                           total |-> t - l.t0]),
        !.extracted = l.extracted,
        !.diagnosis = Some(diagnosis),
        !.correlationId = l.corrId,
        !.provider = Some(ResolveProvider(provider, env))]

SuccessResponse(l, diagnosis, provider, t) ==
    [NoResponseFields EXCEPT
        !.status = 200,
        !.ok = TRUE,
        !.pipeline = Some([transcribe |-> l.transcribeMs,
                           extract |-> l.extractMs,
                           diagnose |-> t - l.t3,
                           total |-> t - l.t0]),
        !.transcript = l.transcript,
        !.extracted = l.extracted,
        !.diagnosis = Some(diagnosis),
        !.correlationId = l.corrId,
        !.provider = Some(ResolveProvider(provider, env))]

----------------------------------------------------------------------------
\* pipeline handler: steps

\* "text" in input
IsTextInput(input) == IsSome(input.text)

\* transcript = input.text
TextTranscript_Trimmed(input) == IF input.text = Some(" ") THEN Some("") ELSE input.text

TextTranscript(input) == input.text

\* input.language ?? "es-AR"
TextLanguage(input) == Nullish(input.language, esAR)

\* input.correlationId ?? `corr-${Date.now()}`
ResolveCorrelationId(input, t) == Nullish(input.correlationId, GenCorrelationId(t))

\* trInput: both arms of the conditional copy the same fields
TrInput(input) ==
    [audio |-> Get(input.audio),
     filename |-> input.filename,
     language |-> input.language,
     hint |-> input.hint,
     correlationId |-> input.correlationId]

\* !tr?.text
HasNoText_OnlyUndefined(tr) == ~IsSome(tr.text)

HasNoText(tr) == ~IsSome(tr.text) \/ Get(tr.text) = ""

\* input.language ?? tr.language ?? "es-AR"
AudioLanguage(input, tr) == Nullish(input.language, Nullish(tr.language, esAR))

\* SUPPORTED_LANGS.includes(primary)
IsSupported_OrEmpty(primary) == primary \in SUPPORTED_LANGS \/ primary = ""

IsSupported(primary) == primary \in SUPPORTED_LANGS

\* (mutant) symptoms and riskFlags are handed over as the adapter gave them
ExtractionForDiagnose_NoDefaults(extracted) ==
    [patient |-> extracted.patient,
     symptoms |-> extracted.symptoms,
     riskFlags |-> extracted.riskFlags,
     onsetDays |-> extracted.onsetDays,
     notes |-> extracted.notes]

\* const extractionForDiagnose = { patient, symptoms: symptoms ?? [], ... }
ExtractionForDiagnose(extracted) ==
    [patient |-> extracted.patient,
     symptoms |-> Some(Nullish(extracted.symptoms, <<>>)),
     riskFlags |-> Some(Nullish(extracted.riskFlags, <<>>)),
     onsetDays |-> extracted.onsetDays,
     notes |-> extracted.notes]

InitLoc ==
    [t0 |-> 0, t1 |-> 0, t2 |-> 0, t3 |-> 0,
     transcript |-> None, language |-> None, correlationId |-> None,
     transcribeMs |-> 0, extractMs |-> 0,
     lang |-> None, corrId |-> None, extracted |-> None]

\* return res.status(..).json(..)
Respond(r) ==
    /\ responses' = Append(responses, r)
    /\ pc' = "done"
    /\ UNCHANGED escaped

\* (mutant) the exception leaves the handler and nothing is answered
Catch_Escapes(e) ==
    /\ escaped' = TRUE
    /\ pc' = "escaped"
    /\ UNCHANGED responses

\* A stage adapter threw inside the try block: the catch clause answers
Catch(e) == Respond(CatchResponse(e))

\* (mutant) the language gate is evaluated after extractService was invoked
GateAndExtract_GateAfterCall(l0, t) ==
    LET l == [l0 EXCEPT !.transcribeMs = t - l0.t1,
                        !.lang = Some(Nullish(l0.language, esAR)),
                        !.corrId = Some(Nullish(l0.correlationId, GenCorrelationId(t)))]
    IN /\ exCalls' = Append(exCalls, [transcript |-> Get(l.transcript),
                                      language |-> Get(l.lang),
                                      correlationId |-> Get(l.corrId)])
       /\ callOrder' = Append(callOrder, "extract")
       /\ IF ~IsSupported(primaryLang(l.lang))
          THEN /\ Respond(UnsupportedLanguageResponse(Get(l.corrId)))
               /\ loc' = l
          ELSE /\ loc' = [l EXCEPT !.t2 = t]
               /\ pc' = "extract"
               /\ UNCHANGED <<responses, escaped>>

\* (mutant) the adapters are given the primary subtag the gate decided on
GateAndExtract_PrimaryOnly(l0, t) ==
    LET l == [l0 EXCEPT !.transcribeMs = t - l0.t1,
                        !.lang = Some(Nullish(l0.language, esAR)),
                        !.corrId = Some(Nullish(l0.correlationId, GenCorrelationId(t)))]
    IN IF ~IsSupported(primaryLang(l.lang))
       THEN /\ Respond(UnsupportedLanguageResponse(Get(l.corrId)))
            /\ loc' = l
            /\ UNCHANGED <<exCalls, callOrder>>
       ELSE /\ loc' = [l EXCEPT !.t2 = t]
            /\ exCalls' = Append(exCalls, [transcript |-> Get(l.transcript),
                                           language |-> <<primaryLang(l.lang)>>,
                                           correlationId |-> Get(l.corrId)])
            /\ callOrder' = Append(callOrder, "extract")
            /\ pc' = "extract"
            /\ UNCHANGED <<responses, escaped>>

\* Lines from "const transcribeMs" to the call of extractService, at clock
\* value t: the language gate, then the extract adapter is invoked
GateAndExtract(l0, t) ==
    LET l == [l0 EXCEPT !.transcribeMs = t - l0.t1,
                        !.lang = Some(Nullish(l0.language, esAR)),
                        !.corrId = Some(Nullish(l0.correlationId, GenCorrelationId(t)))]
    IN IF ~IsSupported(primaryLang(l.lang))
       THEN /\ Respond(UnsupportedLanguageResponse(Get(l.corrId)))
            /\ loc' = l
            /\ UNCHANGED <<exCalls, callOrder>>
       ELSE /\ loc' = [l EXCEPT !.t2 = t]
            /\ exCalls' = Append(exCalls, [transcript |-> Get(l.transcript),
                                           language |-> Get(l.lang),
                                           correlationId |-> Get(l.corrId)])
            /\ callOrder' = Append(callOrder, "extract")
            /\ pc' = "extract"
            /\ UNCHANGED <<responses, escaped>>

\* The request arrives: validation, shape detection, and either the text branch
\* up to the extract call or the audio branch up to the transcribe call
Post(b) ==
    /\ pc = "idle"
    /\ body' = Some(b)
    /\ LET p == PipelineBodySchema(b, now)
           l == [InitLoc EXCEPT !.t0 = now, !.t1 = now]
       IN /\ parsed' = Some(p)
          /\ IF ~p.success
             THEN /\ Respond(ValidationResponse(p.issues))
                  /\ UNCHANGED <<loc, trCalls, exCalls, callOrder>>
             ELSE IF IsTextInput(p.input)
             THEN /\ GateAndExtract([l EXCEPT
                        !.transcript = TextTranscript(p.input),
                        !.language = Some(TextLanguage(p.input)),
                        !.correlationId = Some(ResolveCorrelationId(p.input, now))], now)
                  /\ UNCHANGED trCalls
             ELSE /\ loc' = l
                  /\ trCalls' = Append(trCalls, TrInput(p.input))
                  /\ callOrder' = Append(callOrder, "transcribe")
                  /\ pc' = "transcribe"
                  /\ UNCHANGED <<exCalls, responses, escaped>>
    /\ UNCHANGED <<env, zodV4, now, trOut, trRes, exRes, dgRes, dgCalls>>
    /\ UNCHANGED serviceVars
    /\ UNCHANGED concVars

\* await transcribeService(trInput) settles, at clock value t
TranscribeDone(w, t) ==
    /\ pc = "transcribe"
    /\ w \in WorldFor(trCalls[Len(trCalls)])
    /\ t \in now..MaxClock
    /\ now' = t
    /\ LET input == Get(parsed).input
           r == transcribeService(trCalls[Len(trCalls)], w)
       IN /\ trOut' = w.out
          /\ trRes' = Some(r)
          /\ IF r.threw
             THEN /\ Catch(r.err)
                  /\ UNCHANGED <<loc, exCalls, callOrder>>
             ELSE IF HasNoText(Get(r.value))
             THEN /\ Respond(TranscribeFailureResponse)
                  /\ UNCHANGED <<loc, exCalls, callOrder>>
             ELSE GateAndExtract([loc EXCEPT
                        !.transcript = Get(r.value).text,
                        !.language = Some(AudioLanguage(input, Get(r.value))),
                        !.correlationId = Some(ResolveCorrelationId(input, t))], t)
    /\ UNCHANGED <<env, zodV4, body, parsed, exRes, dgRes, trCalls, dgCalls>>
    /\ UNCHANGED serviceVars
    /\ UNCHANGED concVars

\* (mutant) a failure of extractService is swallowed and diagnose runs on an
\* empty extraction
ExtractDone_SwallowsError(w, t) ==
    /\ pc = "extract"
    /\ t \in now..MaxClock
    /\ now' = t
    /\ LET r == extractService(exCalls[Len(exCalls)], w)
           x == IF r.threw
                THEN [patient |-> None, symptoms |-> None, onsetDays |-> None,
                      riskFlags |-> None, notes |-> None]
                ELSE Get(r.value)
       IN /\ exRes' = Some(r)
          /\ loc' = [loc EXCEPT !.extracted = Some(x),
                                !.extractMs = t - loc.t2,
                                !.t3 = t]
          /\ dgCalls' = Append(dgCalls,
                 [extraction |-> ExtractionForDiagnose(x),
                  language |-> Get(loc.lang),
                  correlationId |-> Get(loc.corrId)])
          /\ callOrder' = Append(callOrder, "diagnose")
          /\ backends' = BackendsAfterCall([extraction |-> ExtractionForDiagnose(x)])
          /\ pc' = "diagnose"
          /\ UNCHANGED <<responses, escaped>>
    /\ UNCHANGED <<env, zodV4, body, parsed, trOut, trRes, dgRes, trCalls, exCalls>>
    /\ UNCHANGED adapterVars
    /\ UNCHANGED concVars

\* await extractService(..) settles, at clock value t; on success the diagnose
\* adapter is invoked
ExtractDone(w, t) ==
    /\ pc = "extract"
    /\ t \in now..MaxClock
    /\ now' = t
    /\ LET r == extractService(exCalls[Len(exCalls)], w)
       IN /\ exRes' = Some(r)
          /\ IF r.threw
             THEN /\ Catch(r.err)
                  /\ UNCHANGED <<loc, dgCalls, callOrder, backends>>
             ELSE /\ loc' = [loc EXCEPT !.extracted = r.value,
                                        !.extractMs = t - loc.t2,
                                        !.t3 = t]
                  /\ dgCalls' = Append(dgCalls,
                         [extraction |-> ExtractionForDiagnose(Get(r.value)),
                          language |-> Get(loc.lang),
                          correlationId |-> Get(loc.corrId)])
                  /\ callOrder' = Append(callOrder, "diagnose")
                  /\ backends' = BackendsAfterCall(
                         [extraction |-> ExtractionForDiagnose(Get(r.value))])
                  /\ pc' = "diagnose"
                  /\ UNCHANGED <<responses, escaped>>
    /\ UNCHANGED <<env, zodV4, body, parsed, trOut, trRes, dgRes, trCalls, exCalls>>
    /\ UNCHANGED adapterVars
    /\ UNCHANGED concVars

\* (mutant) a request that took measurable time is answered as timed out
DiagnoseDone_TimesOut(w, t) ==
    /\ pc = "diagnose"
    /\ t \in now..MaxClock
    /\ now' = t
    /\ LET r == diagnoseService(dgCalls[Len(dgCalls)], w)
       IN /\ dgRes' = Some(r)
          /\ IF r.threw \/ t > loc.t0
             THEN Catch(Some("timeout"))
             ELSE Respond(SuccessResponse(loc, Get(r.value), Get(parsed).provider, t))
    /\ UNCHANGED <<env, zodV4, body, parsed, loc, trOut, trRes, exRes, trCalls,
                   exCalls, dgCalls, callOrder>>
    /\ UNCHANGED serviceVars
    /\ UNCHANGED concVars

\* await diagnoseService(..) settles, at clock value t
DiagnoseDone(w, t) ==
    /\ pc = "diagnose"
    /\ t \in now..MaxClock
    /\ now' = t
    /\ LET r == diagnoseService(dgCalls[Len(dgCalls)], w)
       IN /\ dgRes' = Some(r)
          /\ IF r.threw
             THEN Catch(r.err)
             ELSE Respond(SuccessResponse(loc, Get(r.value), Get(parsed).provider, t))
    /\ UNCHANGED <<env, zodV4, body, parsed, loc, trOut, trRes, exRes, trCalls,
                   exCalls, dgCalls, callOrder>>
    /\ UNCHANGED serviceVars
    /\ UNCHANGED concVars

----------------------------------------------------------------------------

EnvProviders == {None, Some(""), Some("gemini"), Some("OpenAI"), Some("azure")}

\* The requests served concurrently
MaxRequests == 2
Reqs == 1..MaxRequests

\* The handler state of a request that has not arrived
IdleRequest ==
    [pc |-> "idle", body |-> None, parsed |-> None, loc |-> InitLoc,
     trCalls |-> <<>>, exCalls |-> <<>>, dgCalls |-> <<>>,
     trWorld |-> None, exWorld |-> None, dgWorld |-> None,
     responses |-> <<>>]

\* validateRequest.errors and validateData.errors before any validation ran
NoAjvErrors == [validateRequest |-> None, validateData |-> None]

\* No request is served concurrently with another
ConcurrencyOff ==
    /\ requests = [r \in Reqs |-> IdleRequest]
    /\ ajvErrors = NoAjvErrors

\* No stage adapter is being called on its own
ServiceOff ==
    /\ spc = "off"
    /\ sreq = None
    /\ sreqAfter = None
    /\ sext = None
    /\ snorm = None
    /\ sparses = 0
    /\ scalls = 0
    /\ backends = <<>>
    /\ sout = None

\* The handler has received no request
PipelineIdle ==
    /\ now = 0
    /\ pc = "idle"
    /\ body = None
    /\ parsed = None
    /\ loc = InitLoc
    /\ trOut = None
    /\ trRes = None
    /\ exRes = None
    /\ dgRes = None
    /\ trCalls = <<>>
    /\ exCalls = <<>>
    /\ dgCalls = <<>>
    /\ callOrder = <<>>
    /\ responses = <<>>
    /\ escaped = FALSE

Init ==
    /\ env \in [PROVIDER : EnvProviders]
    /\ zodV4 \in BOOLEAN
    /\ PipelineIdle
    /\ ConcurrencyOff
    /\ ServiceOff

Next ==
    \/ \E b \in Bodies : Post(b)
    \/ \E w \in TranscribeWorlds, t \in Clock : TranscribeDone(w, t)
    \/ \E w \in ExtractWorlds, t \in Clock : ExtractDone(w, t)
    \/ \E w \in DiagnoseWorlds, t \in Clock : DiagnoseDone(w, t)

Spec == Init /\ [][Next]_vars

\* One request whose pending adapter call always settles (returns or throws)
InitLive ==
    /\ env = [PROVIDER |-> None]
    /\ zodV4 \in BOOLEAN
    /\ PipelineIdle
    /\ ConcurrencyOff
    /\ ServiceOff

SpecLive ==
    /\ InitLive
    /\ [][Next]_vars
    /\ WF_vars(\E w \in TranscribeWorlds, t \in Clock : TranscribeDone(w, t))
    /\ WF_vars(\E w \in ExtractWorlds, t \in Clock : ExtractDone(w, t))
    /\ WF_vars(\E w \in DiagnoseWorlds, t \in Clock : DiagnoseDone(w, t))

\* The handler serves no request while a stage adapter is called on its own
PipelineOff ==
    /\ env = [PROVIDER |-> None]
    /\ zodV4 = FALSE
    /\ PipelineIdle
    /\ ConcurrencyOff

----------------------------------------------------------------------------
\* JavaScript values as the extract adapter meets them in a request or in the
\* JSON the model returned: undefined is <<>>, every other value is the pair
\* <<kind, payload>>

Undefined == <<>>
Str(s) == <<"string", s>>
Num(n) == <<"number", n>>
Bool(b) == <<"boolean", b>>
Arr(a) == <<"array", a>>
Obj(o) == <<"object", o>>
kind(v) == IF v = Undefined THEN "undefined" ELSE v[1]
payload(v) == v[2]

\* typeof v
typeof(v) == IF kind(v) \in {"null", "array"} THEN "object" ELSE kind(v)

\* ToBoolean(v), as in "if (v)" and "!v"
Truthy(v) ==
    CASE kind(v) \in {"undefined", "null"} -> FALSE
      [] kind(v) = "string" -> payload(v) # ""
      [] kind(v) = "number" -> payload(v) # 0
      [] kind(v) = "boolean" -> payload(v)
      [] OTHER -> TRUE

\* Number(s) for the strings of the model; <<>> is NaN
StringToNumber(s) ==
    CASE s \in {"", " "} -> Some(0)
      [] s = "30" -> Some(30)
      [] s = "200" -> Some(200)
      [] OTHER -> None

\* ajv's type coercion (coerceTypes: true) of a value to "string":
\* <<>> when the value cannot be coerced
CoerceToString(v) ==
    CASE kind(v) = "string" -> Some(v)
      [] kind(v) = "number" -> Some(Str(ToString(payload(v))))
      [] kind(v) = "boolean" -> Some(Str(IF payload(v) THEN "true" ELSE "false"))
      [] kind(v) = "null" -> Some(Str(""))
      [] OTHER -> None

\* ajv's type coercion of a value to "integer": a boolean, null, or a non-empty
\* string s with s == +s and no fractional part
CoerceToInteger(v) ==
    CASE kind(v) = "number" -> Some(v)
      [] kind(v) = "boolean" -> Some(Num(IF payload(v) THEN 1 ELSE 0))
      [] kind(v) = "null" -> Some(Num(0))
      [] kind(v) = "string" /\ payload(v) # "" /\ StringToNumber(payload(v)) # None ->
            Some(Num(Get(StringToNumber(payload(v)))))
      [] OTHER -> None

----------------------------------------------------------------------------
\* extract/service.ts: validation of the request

\* A property of schema {type: "string"} under coerceTypes: the value ajv
\* leaves in the object
StringProperty(v) == IF CoerceToString(v) # None THEN Get(CoerceToString(v)) ELSE v

\* (mutant) only the transcript is required
ajvValidateRequest_TranscriptOnly(input) ==
    LET data == [transcript |-> StringProperty(input.transcript),
                 language |-> StringProperty(input.language),
                 correlationId |-> StringProperty(input.correlationId),
                 extra |-> Undefined]
    IN [valid |-> /\ kind(data.transcript) = "string"
                  /\ payload(data.transcript) # ""
                  /\ kind(data.language) \in {"string", "undefined"}
                  /\ kind(data.correlationId) \in {"string", "undefined"},
        data |-> data]

\* validateRequest(input), compiled from requestSchema by the ajv instance with
\* coerceTypes and removeAdditional: "all"; data is the input object as the
\* validation leaves it (ajv coerces and removes in place)
ajvValidateRequest(input) ==
    LET data == [transcript |-> StringProperty(input.transcript),
                 language |-> StringProperty(input.language),
                 correlationId |-> StringProperty(input.correlationId),
                 extra |-> Undefined]
    IN [valid |-> /\ kind(data.transcript) = "string"
                  /\ payload(data.transcript) # ""
                  /\ kind(data.language) = "string"
                  /\ kind(data.correlationId) = "string",
        data |-> data]

----------------------------------------------------------------------------
\* extract/service.ts: the JSON the model returned, its normalization and its
\* validation. An object is a record of all the keys the model of the program
\* distinguishes, absent keys being undefined; "extra" stands for any key that
\* is neither declared by dataSchema nor a synonym.

BlankPatient ==
    [age |-> Undefined, sex |-> Undefined, genero |-> Undefined,
     sexo |-> Undefined, extra |-> Undefined]

BlankObject ==
    [patient |-> Undefined, paciente |-> Undefined,
     symptoms |-> Undefined, sintomas |-> Undefined,
     riskFlags |-> Undefined, riesgos |-> Undefined,
     notes |-> Undefined, observaciones |-> Undefined,
     onsetDays |-> Undefined, extra |-> Undefined]

\* "if (out.synonym && !out.canonical) out.canonical = out.synonym": the value
\* of the canonical key afterwards
Mapped(synonym, canonical) ==
    IF Truthy(synonym) /\ ~Truthy(canonical) THEN synonym ELSE canonical

\* "if (typeof p.age === 'string') { const num = Number(p.age); if
\* (!Number.isNaN(num)) p.age = num; }"
NumberedAge(age) ==
    IF kind(age) = "string" /\ StringToNumber(payload(age)) # None
    THEN Num(Get(StringToNumber(payload(age))))
    ELSE age

\* the block "if (out.patient && typeof out.patient === 'object') {...}"
\* (a patient of the model is never an array); genero is mapped before sexo
normalizePatient(patient) ==
    IF ~(Truthy(patient) /\ kind(patient) = "object") THEN patient
    ELSE Obj([payload(patient) EXCEPT
                !.sex = Mapped(payload(patient).sexo,
                               Mapped(payload(patient).genero, payload(patient).sex)),
                !.age = NumberedAge(payload(patient).age)])

\* "if (typeof v === 'string') v = [v]"
WrapString(v) == IF kind(v) = "string" THEN Arr(<<payload(v)>>) ELSE v

\* { ...raw } of a JSON array: an object whose keys are the indices, none of
\* them declared by the schema
SpreadArray(a) ==
    IF a = <<>> THEN BlankObject ELSE [BlankObject EXCEPT !.extra = Str(a[1])]

\* const out = { ...raw }
Spread(raw) == IF kind(raw) = "array" THEN SpreadArray(payload(raw)) ELSE payload(raw)

\* The statements of the function write disjoint keys, each from the keys of
\* the same group, so every key of the result is given by its own statements
normalizeExtractionData(raw) ==
    IF raw = Null \/ typeof(raw) # "object" THEN raw
    ELSE Obj([Spread(raw) EXCEPT
                !.symptoms = WrapString(Mapped(Spread(raw).sintomas, Spread(raw).symptoms)),
                !.riskFlags = WrapString(Mapped(Spread(raw).riesgos, Spread(raw).riskFlags)),
                !.notes = Mapped(Spread(raw).observaciones, Spread(raw).notes),
                !.patient = normalizePatient(Mapped(Spread(raw).paciente,
                                                    Spread(raw).patient))])

\* A property of schema {type: "integer", minimum, maximum} under coerceTypes
IntegerProperty(v) == IF CoerceToInteger(v) # None THEN Get(CoerceToInteger(v)) ELSE v
IntegerOk(v, minimum) ==
    \/ v = Undefined
    \/ /\ CoerceToInteger(v) # None
       /\ payload(IntegerProperty(v)) >= minimum

\* A property of schema {type: "array", items: {type: "string"}, default: []}:
\* useDefaults fills the absent property; coerceTypes: true does not turn a
\* scalar into an array (the arrays of the model hold strings only)
ArrayProperty(v) == IF v = Undefined THEN Arr(<<>>) ELSE v
ArrayOk(v) == kind(v) \in {"undefined", "array"}

\* The keys the schemas do not declare
PatientExtras(p) == {k \in {"genero", "sexo", "extra"} : p[k] # Undefined}
ObjectExtras(o) ==
    {k \in {"paciente", "sintomas", "riesgos", "observaciones", "extra"} : o[k] # Undefined}

\* dataSchema.properties.patient applied to a present value
PatientSchema(patient, removeAdditional) ==
    IF kind(patient) # "object" THEN [valid |-> FALSE, data |-> patient]
    ELSE LET p == payload(patient)
             kept == [age |-> IntegerProperty(p.age),
                      sex |-> StringProperty(p.sex),
                      genero |-> IF removeAdditional THEN Undefined ELSE p.genero,
                      sexo |-> IF removeAdditional THEN Undefined ELSE p.sexo,
                      extra |-> IF removeAdditional THEN Undefined ELSE p.extra]
         IN [valid |-> /\ IntegerOk(p.age, 0)
                       /\ p.age # Undefined => payload(kept.age) <= 130
                       /\ \/ p.sex = Undefined
                          \/ /\ kind(kept.sex) = "string"
                             /\ payload(kept.sex) \in {"M", "F", "X"}
                       /\ removeAdditional \/ PatientExtras(p) = {},
             data |-> Obj(kept)]

\* dataSchema compiled by an ajv instance with allErrors, coerceTypes,
\* useDefaults and the given removeAdditional; data is the value as the
\* validation leaves it
DataSchema(v, removeAdditional) ==
    IF kind(v) # "object" THEN [valid |-> FALSE, data |-> v]
    ELSE LET o == payload(v)
             pat == IF o.patient = Undefined THEN [valid |-> TRUE, data |-> Undefined]
                    ELSE PatientSchema(o.patient, removeAdditional)
             kept == [patient |-> pat.data,
                      symptoms |-> ArrayProperty(o.symptoms),
                      riskFlags |-> ArrayProperty(o.riskFlags),
                      onsetDays |-> IntegerProperty(o.onsetDays),
                      notes |-> StringProperty(o.notes),
                      paciente |-> IF removeAdditional THEN Undefined ELSE o.paciente,
                      sintomas |-> IF removeAdditional THEN Undefined ELSE o.sintomas,
                      riesgos |-> IF removeAdditional THEN Undefined ELSE o.riesgos,
                      observaciones |-> IF removeAdditional THEN Undefined ELSE o.observaciones,
                      extra |-> IF removeAdditional THEN Undefined ELSE o.extra]
         IN [valid |-> /\ pat.valid
                       /\ ArrayOk(o.symptoms)
                       /\ ArrayOk(o.riskFlags)
                       /\ IntegerOk(o.onsetDays, 0)
                       /\ o.notes = Undefined \/ CoerceToString(o.notes) # None
                       /\ removeAdditional \/ ObjectExtras(o) = {},
             data |-> Obj(kept)]

\* (mutant) the ajv instance does not remove additional properties, so that
\* additionalProperties: false rejects them
validateData_Strict(v) == DataSchema(v, FALSE)

\* validateData = ajv.compile(dataSchema), ajv having removeAdditional: "all"
validateData(v) == DataSchema(v, TRUE)

\* What openai.chat.completions.create and the environment can do to one call
\* of extractWithLLM
PatientObjects ==
    {[BlankPatient EXCEPT !.age = a, !.extra = x] :
        a \in {Num(30), Num(200), Str("30"), Str(""), Str(" "), Str("abc")},
        x \in {Undefined, Str("x")}}
    \cup {[BlankPatient EXCEPT !.sex = c, !.genero = g, !.sexo = x] :
        c \in {Undefined, Str(""), Str("M"), Str("Q")},
        g \in {Undefined, Str(""), Str("F")},
        x \in {Undefined, Str("X")}}

BareOrArray == {Str(""), Str("fiebre"), Arr(<<>>), Arr(<<"tos">>)}

ModelObjects ==
    {[BlankObject EXCEPT !.symptoms = c, !.sintomas = y, !.extra = x] :
        c \in {Undefined, Null} \cup BareOrArray,
        y \in {Undefined} \cup BareOrArray,
        x \in {Undefined, Str("x")}}
    \cup {[BlankObject EXCEPT !.riskFlags = c, !.riesgos = y, !.onsetDays = d] :
        c \in {Undefined} \cup BareOrArray,
        y \in {Undefined} \cup BareOrArray,
        d \in {Undefined, Num(3), Num(-1), Str("30")}}
    \cup {[BlankObject EXCEPT !.notes = c, !.observaciones = y] :
        c \in {Undefined, Str(""), Str("nota"), Num(5)},
        y \in {Undefined, Str(""), Str("obs")}}
    \cup {[BlankObject EXCEPT !.patient = c, !.paciente = y] :
        c \in {Undefined, Null, Str("x")} \cup {Obj(q) : q \in PatientObjects},
        y \in {Undefined, Obj([BlankPatient EXCEPT !.age = Num(30), !.genero = Str("F")])}}
    \cup {[BlankObject EXCEPT !.sintomas = c, !.riesgos = r, !.observaciones = n,
                              !.paciente = q] :
        c \in {Str("fiebre"), Arr(<<"tos">>)},
        r \in {Undefined, Str("fiebre"), Arr(<<>>)},
        n \in {Undefined, Str(""), Str("obs")},
        q \in {Undefined, Obj([BlankPatient EXCEPT !.age = Str("30"), !.genero = Str("F")]),
               Obj([BlankPatient EXCEPT !.sexo = Str("X")])}}

ParsedContents ==
    {Obj(o) : o \in ModelObjects} \cup {Null, Str("fiebre"), Arr(<<>>), Arr(<<"fiebre">>)}

LlmWorlds ==
    [fault : {"no_api_key", "create_rejects", "empty_content", "invalid_json"},
     parsed : {Undefined}]
    \cup [fault : {"none"}, parsed : ParsedContents]

\* return { symptoms: [], riskFlags: [], ...data }
WithArrayDefaults(data) ==
    IF kind(data) # "object" THEN data
    ELSE Obj([payload(data) EXCEPT
                !.symptoms = IF @ = Undefined THEN Arr(<<>>) ELSE @,
                !.riskFlags = IF @ = Undefined THEN Arr(<<>>) ELSE @])

\* extractWithLLM(transcript, language) in the world w; the prompt does not
\* influence what the world answers
extractWithLLM(w) ==
    CASE w.fault = "no_api_key" -> Threw(Some("OPENAI_API_KEY no esta seteada"))
      [] w.fault = "create_rejects" -> Threw(Some("boom"))
      [] w.fault = "empty_content" -> Threw(Some("LLM devolvio contenido vacio"))
      [] w.fault = "invalid_json" -> Threw(Some("LLM no devolvio JSON valido"))
      [] OTHER ->
          LET normalized == normalizeExtractionData(w.parsed)
              v == validateData(normalized)
          IN IF ~v.valid THEN Threw(Some("LLM no cumple el schema de extraccion"))
             ELSE Returned(WithArrayDefaults(v.data))

----------------------------------------------------------------------------
\* extractService called on its own, with every kind of argument object

ExtractRequests ==
    [transcript : {Undefined, Null, Str(""), Str("dolor"), Num(5)},
     language : {Undefined, Null, Str("es-AR"), Num(5), Bool(TRUE)},
     correlationId : {Undefined, Str("c-1"), Num(7)},
     extra : {Undefined, Str("x")}]

InitExtract ==
    /\ PipelineOff
    /\ spc = "request"
    /\ sreq \in {Some(r) : r \in ExtractRequests}
    /\ sreqAfter = None
    /\ sext = None
    /\ snorm = None
    /\ sparses = 0
    /\ scalls = 0
    /\ backends = <<>>
    /\ sout = None

\* extractService(input) up to the await of extractWithLLM
ExtractCall ==
    /\ spc = "request"
    /\ LET v == ajvValidateRequest(Get(sreq))
       IN /\ sreqAfter' = Some(v.data)
          /\ IF ~v.valid
             THEN /\ sout' = Some(Threw(Some("Bad request en extractService")))
                  /\ spc' = "done"
                  /\ UNCHANGED scalls
             ELSE /\ scalls' = scalls + 1
                  /\ spc' = "llm"
                  /\ UNCHANGED sout
    /\ UNCHANGED <<sreq, sext, snorm, sparses, backends>>
    /\ UNCHANGED pipelineVars
    /\ UNCHANGED concVars

\* extractWithLLM settles in the world w
ExtractLLMDone(w) ==
    /\ spc = "llm"
    /\ sext' = Some(w)
    /\ snorm' = IF w.fault = "none" THEN Some(normalizeExtractionData(w.parsed)) ELSE None
    /\ sout' = Some(extractWithLLM(w))
    /\ spc' = "done"
    /\ UNCHANGED <<sreq, sreqAfter, sparses, scalls, backends>>
    /\ UNCHANGED pipelineVars
    /\ UNCHANGED concVars

NextExtract ==
    \/ ExtractCall
    \/ \E w \in LlmWorlds : ExtractLLMDone(w)

SpecExtract == InitExtract /\ [][NextExtract]_vars

----------------------------------------------------------------------------
\* The projection of the extract result for diagnose, applied on its own to
\* every value the adapter's return type (ExtractionResponseData) admits

ArrayResults == {None, Null, Some(<<>>), Some(<<"dolor">>)}

AdapterExtractions ==
    [patient : {None, Some([age |-> None, sex |-> None]),
                Some([age |-> Some(30), sex |-> Some("F")])},
     symptoms : ArrayResults,
     onsetDays : {None, Some(0), Some(3)},
     riskFlags : ArrayResults,
     notes : {None, Some(""), Some("sin medicacion")}]

InitProject ==
    /\ PipelineOff
    /\ spc = "project"
    /\ sreq \in {Some(x) : x \in AdapterExtractions}
    /\ sreqAfter = None
    /\ sext = None
    /\ snorm = None
    /\ sparses = 0
    /\ scalls = 0
    /\ backends = <<>>
    /\ sout = None

Project ==
    /\ spc = "project"
    /\ sout' = Some(Returned(ExtractionForDiagnose(Get(sreq))))
    /\ spc' = "done"
    /\ UNCHANGED <<sreq, sreqAfter, sext, snorm, sparses, scalls, backends>>
    /\ UNCHANGED pipelineVars
    /\ UNCHANGED concVars

NextProject == Project

SpecProject == InitProject /\ [][NextProject]_vars

----------------------------------------------------------------------------
\* diagnose/service.ts: the text a backend returned and its parse. A text is
\* the record of what precedes the body, the body, and what follows it; pre
\* and post are sequences of chunks, a string inside a JSON body is a sequence
\* of chunks too, and a chunk is a code fence, a line break or plain text.

\* The chunks ```json and ``` (a string of the module cannot hold a backquote)
FenceJson == "'''json"
Fence == "'''"
LineBreak == "\n"

\* A string value of a JSON body, given by its chunks
Text(chunks) == <<"string", chunks>>

\* s.replace(/```json|```/g, "") on a sequence of chunks
RECURSIVE StripFences(_)
StripFences(chunks) ==
    IF chunks = <<>> THEN <<>>
    ELSE IF Head(chunks) \in {FenceJson, Fence} THEN StripFences(Tail(chunks))
    ELSE <<Head(chunks)>> \o StripFences(Tail(chunks))

\* The same replacement inside a JSON value, where it meets the string values
StripFencesInValue(v) ==
    CASE kind(v) = "string" -> Text(StripFences(payload(v)))
      [] kind(v) = "array" ->
            Arr([i \in DOMAIN payload(v) |-> StripFences(payload(v)[i])])
      [] OTHER -> v

StripFencesInBody(b) ==
    IF ~b.json \/ kind(b.value) # "object" THEN b
    ELSE [b EXCEPT !.value =
            Obj([k \in DOMAIN payload(b.value) |-> StripFencesInValue(payload(b.value)[k])])]

\* s.trim() at either end of a sequence of chunks
RECURSIVE TrimStart(_)
TrimStart(chunks) ==
    IF chunks # <<>> /\ Head(chunks) = LineBreak THEN TrimStart(Tail(chunks))
    ELSE chunks

RECURSIVE TrimEnd(_)
TrimEnd(chunks) ==
    IF chunks # <<>> /\ chunks[Len(chunks)] = LineBreak
    THEN TrimEnd(SubSeq(chunks, 1, Len(chunks) - 1))
    ELSE chunks

\* raw.replace(/```json|```/g, "").trim()
Cleaned(raw) ==
    [pre |-> TrimStart(StripFences(raw.pre)),
     body |-> StripFencesInBody(raw.body),
     post |-> TrimEnd(StripFences(raw.post))]

\* JSON.parse(text): the value of the body when the body is JSON and only
\* white space surrounds it, a SyntaxError otherwise
JsonParse(text) ==
    IF /\ text.body.json
       /\ \A i \in DOMAIN text.pre : text.pre[i] = LineBreak
       /\ \A i \in DOMAIN text.post : text.post[i] = LineBreak
    THEN Returned(text.body.value)
    ELSE Threw(Some("SyntaxError"))

\* (mutant) severity is any string
LlmOutputSchema_AnySeverity(json) ==
    IF kind(json) # "object" THEN Threw(Some("ZodError"))
    ELSE LET o == payload(json)
         IN IF /\ kind(o.summary) = "string"
               /\ kind(o.differentials) \in {"undefined", "array"}
               /\ kind(o.recommendations) \in {"undefined", "array"}
               /\ kind(o.severity) = "string"
            THEN Returned([summary |-> o.summary,
                           differentials |-> IF o.differentials = Undefined
                                             THEN Arr(<<>>) ELSE o.differentials,
                           recommendations |-> IF o.recommendations = Undefined
                                               THEN Arr(<<>>) ELSE o.recommendations,
                           severity |-> o.severity])
            ELSE Threw(Some("ZodError"))

\* LlmOutputSchema.parse(json)
LlmOutputSchema(json) ==
    IF kind(json) # "object" THEN Threw(Some("ZodError"))
    ELSE LET o == payload(json)
         IN IF /\ kind(o.summary) = "string"
               /\ kind(o.differentials) \in {"undefined", "array"}
               /\ kind(o.recommendations) \in {"undefined", "array"}
               /\ kind(o.severity) = "string"
               /\ payload(o.severity) \in {<<"low">>, <<"moderate">>, <<"high">>}
            THEN Returned([summary |-> o.summary,
                           differentials |-> IF o.differentials = Undefined
                                             THEN Arr(<<>>) ELSE o.differentials,
                           recommendations |-> IF o.recommendations = Undefined
                                               THEN Arr(<<>>) ELSE o.recommendations,
                           severity |-> o.severity])
            ELSE Threw(Some("ZodError"))

\* The JSON bodies and the texts a backend can return (a backend trims its
\* text and throws on an empty one)
JsonValues ==
    {Obj([summary |-> t, differentials |-> d, recommendations |-> Undefined,
          severity |-> v]) :
        t \in {Undefined, Text(<<"gripe">>), Text(<<"tomar ", Fence, "ibuprofeno", Fence>>)},
        d \in {Undefined, Arr(<<>>), Arr(<<(<<"resfrio">>), <<FenceJson>>>>)},
        v \in {Undefined, Text(<<"low">>), Text(<<"severe">>)}}
    \cup {Null}

TextBodies ==
    {[json |-> TRUE, value |-> v] : v \in JsonValues}
    \cup {[json |-> FALSE, value |-> Undefined]}

Prefixes ==
    {<<>>, <<FenceJson, LineBreak>>, <<Fence, LineBreak>>, <<FenceJson>>,
     <<Fence, "js", LineBreak>>, <<"Respuesta:", LineBreak, FenceJson, LineBreak>>}

Suffixes == {<<>>, <<LineBreak, Fence>>, <<Fence>>, <<LineBreak, Fence, LineBreak, "Fin">>}

BackendTexts == [pre : Prefixes, body : TextBodies, post : Suffixes]

BackendWorlds ==
    [fault : {"missing_key", "rejects", "empty"}, text : {Undefined}]
    \cup [fault : {"none"}, text : BackendTexts]

\* The try/catch around JSON.parse: the parse of the raw text and, when it
\* throws, one parse of the cleaned text
ParseRobust(raw) ==
    LET first == JsonParse(raw)
    IN IF ~first.threw THEN [attempts |-> 1, json |-> first]
       ELSE [attempts |-> 2, json |-> JsonParse(Cleaned(raw))]

----------------------------------------------------------------------------
\* diagnoseService called on its own

DiagnoseRequests ==
    {[extraction |-> ExtractionForDiagnose(x), language |-> Some(esAR),
      correlationId |-> Some("c-1")] :
        x \in ExtractionData \cup
              {[patient |-> Some([age |-> Some(200), sex |-> Some("M")]),
                symptoms |-> Some(<<>>), onsetDays |-> None,
                riskFlags |-> Some(<<>>), notes |-> None]}}

\* process.env.PROVIDER as diagnoseService can find it
ProviderFlags ==
    {None, Some(""), Some("gemini"), Some("openai"), Some("OpenAI"), Some("azure")}

InitDiagnose ==
    /\ env \in [PROVIDER : ProviderFlags]
    /\ zodV4 = FALSE
    /\ PipelineIdle
    /\ ConcurrencyOff
    /\ spc = "request"
    /\ sreq \in {Some(r) : r \in DiagnoseRequests}
    /\ sreqAfter = None
    /\ sext = None
    /\ snorm = None
    /\ sparses = 0
    /\ scalls = 0
    /\ backends = <<>>
    /\ sout = None

\* diagnoseService(input) up to the await of generateDiagnosisJSON
DiagnoseCall ==
    /\ spc = "request"
    /\ IF ~ExtractionSchemaOk(Get(sreq).extraction)
       THEN /\ sout' = Some(Threw(Some("ZodError")))
            /\ spc' = "done"
            /\ UNCHANGED scalls
       ELSE /\ scalls' = scalls + 1
            /\ spc' = "backend"
            /\ UNCHANGED sout
    /\ backends' = BackendsAfterCall(Get(sreq))
    /\ UNCHANGED <<sreq, sreqAfter, sext, snorm, sparses>>
    /\ UNCHANGED pipelineVars
    /\ UNCHANGED concVars

\* generateDiagnosisJSON settles in the world w; the text is parsed and the
\* result validated
DiagnoseBackendDone(w) ==
    /\ spc = "backend"
    /\ sext' = Some(w)
    /\ spc' = "done"
    /\ IF w.fault # "none"
       THEN /\ sout' = Some(Threw(Some(w.fault)))
            /\ UNCHANGED <<snorm, sparses>>
       ELSE LET p == ParseRobust(w.text)
            IN /\ sparses' = p.attempts
               /\ snorm' = Some(p.json)
               /\ sout' = Some(IF p.json.threw THEN p.json
                                ELSE LlmOutputSchema(Get(p.json.value)))
    /\ UNCHANGED <<sreq, sreqAfter, scalls, backends>>
    /\ UNCHANGED pipelineVars
    /\ UNCHANGED concVars

NextDiagnose ==
    \/ DiagnoseCall
    \/ \E w \in BackendWorlds : DiagnoseBackendDone(w)

SpecDiagnose == InitDiagnose /\ [][NextDiagnose]_vars

----------------------------------------------------------------------------
\* diagnoseHandler: the standalone diagnose endpoint

\* req.body of POST /diagnose; extraction None is a body such as {foo: "bar"}
HandlerBodies ==
    [extraction : {None} \cup {Some(r.extraction) : r \in DiagnoseRequests}
                         \cup {Some([patient |-> None, symptoms |-> None,
                                     onsetDays |-> Some(2), riskFlags |-> None,
                                     notes |-> Some("sin medicacion")])},
     language : {None, Some(<<"en", "US">>)},
     correlationId : {None, Some("abc-123")}]

\* DiagnoseRequestSchema.safeParse(req.body)
DiagnoseRequestSchema(b) ==
    IF ~IsSome(b.extraction) \/ ~ExtractionSchemaOk(Get(b.extraction))
    THEN [success |-> FALSE, data |-> None]
    ELSE [success |-> TRUE,
          data |-> Some([extraction |->
                            [Get(b.extraction) EXCEPT
                                !.symptoms = IF @ = None THEN Some(<<>>) ELSE @,
                                !.riskFlags = IF @ = None THEN Some(<<>>) ELSE @],
                         language |-> Some(IF b.language = None THEN <<"es", "AR">>
                                           ELSE Get(b.language)),
                         correlationId |-> b.correlationId])]

NoHandlerFields ==
    [status |-> 0, ok |-> FALSE, error |-> None, correlationId |-> None, data |-> None]

\* res.status(400).json({ok: false, error: "BAD_REQUEST", details})
BadRequestResponse ==
    [NoHandlerFields EXCEPT !.status = 400, !.error = Some("BAD_REQUEST")]

\* (mutant) the answer carries no correlationId
OkResponse_NoCorrelationId(data, out) ==
    [NoHandlerFields EXCEPT !.status = 200, !.ok = TRUE, !.data = Some(out)]

\* res.status(200).json({ok: true, correlationId: data.correlationId, data: out})
OkResponse(data, out) ==
    [NoHandlerFields EXCEPT !.status = 200, !.ok = TRUE,
                            !.correlationId = data.correlationId,
                            !.data = Some(out)]

\* res.status(500).json({ok: false, error: "INTERNAL_ERROR"})
InternalErrorResponse ==
    [NoHandlerFields EXCEPT !.status = 500, !.error = Some("INTERNAL_ERROR")]

\* The handler variables diagnoseHandler never writes
handlerFrame ==
    <<env, zodV4, now, pc, body, parsed, loc, trOut, trRes, exRes, dgRes,
      trCalls, exCalls, dgCalls, callOrder, escaped>>

InitHandler ==
    /\ env \in [PROVIDER : {None, Some("openai")}]
    /\ zodV4 = FALSE
    /\ now = 0
    /\ pc = "idle"
    /\ body \in {Some(b) : b \in HandlerBodies}
    /\ parsed = None
    /\ loc = InitLoc
    /\ trOut = None
    /\ trRes = None
    /\ exRes = None
    /\ dgRes = None
    /\ trCalls = <<>>
    /\ exCalls = <<>>
    /\ dgCalls = <<>>
    /\ callOrder = <<>>
    /\ responses = <<>>
    /\ escaped = FALSE
    /\ ConcurrencyOff
    /\ spc = "request"
    /\ sreq = None
    /\ sreqAfter = None
    /\ sext = None
    /\ snorm = None
    /\ sparses = 0
    /\ scalls = 0
    /\ backends = <<>>
    /\ sout = None

\* diagnoseHandler from the safeParse to the await inside diagnoseService
HandlerPost ==
    /\ spc = "request"
    /\ LET p == DiagnoseRequestSchema(Get(body))
       IN IF ~p.success
          THEN /\ responses' = Append(responses, BadRequestResponse)
               /\ spc' = "done"
               /\ UNCHANGED <<sreq, scalls, backends>>
          ELSE /\ sreq' = p.data
               /\ scalls' = scalls + 1
               /\ backends' = BackendsAfterCall(Get(p.data))
               /\ spc' = "backend"
               /\ UNCHANGED responses
    /\ UNCHANGED <<sreqAfter, sext, snorm, sparses, sout>>
    /\ UNCHANGED handlerFrame
    /\ UNCHANGED concVars

\* generateDiagnosisJSON settles in the world w: diagnoseService returns or
\* throws, and the handler answers
HandlerBackendDone(w) ==
    /\ spc = "backend"
    /\ sext' = Some(w)
    /\ spc' = "done"
    /\ IF w.fault # "none"
       THEN /\ sout' = Some(Threw(Some(w.fault)))
            /\ responses' = Append(responses, InternalErrorResponse)
            /\ UNCHANGED <<snorm, sparses>>
       ELSE LET p == ParseRobust(w.text)
                out == IF p.json.threw THEN p.json
                       ELSE LlmOutputSchema(Get(p.json.value))
            IN /\ sparses' = p.attempts
               /\ snorm' = Some(p.json)
               /\ sout' = Some(out)
               /\ responses' = Append(responses,
                      IF out.threw THEN InternalErrorResponse
                      ELSE OkResponse(Get(sreq), Get(out.value)))
    /\ UNCHANGED <<sreq, sreqAfter, scalls, backends>>
    /\ UNCHANGED handlerFrame
    /\ UNCHANGED concVars

NextHandler ==
    \/ HandlerPost
    \/ \E w \in BackendWorlds : HandlerBackendDone(w)

SpecHandler == InitHandler /\ [][NextHandler]_vars

----------------------------------------------------------------------------
\* The pipeline handler serving two requests at once. Between two awaits a
\* request runs alone (one JavaScript thread); at an await any other request
\* may run. The clock stands still.

ConcBodies ==
    {b \in Bodies :
        /\ b.provider = None
        /\ b.filename = None
        /\ b.language \in {None, Some(<<"fr", "FR">>)}
        /\ b.hasInput =>
              /\ b.correlationId = Some("corr-1")
              /\ b.text \in {None, Some("Paciente")}
              /\ IsSome(b.text) # IsSome(b.audio)
              /\ IsSome(b.audio) => Get(b.audio).value = "QUJD"}

ConcTranscribeWorlds ==
    {w \in TranscribeWorlds :
        \/ w.fault = "no_api_key"
        \/ /\ w.fault = "none"
           /\ Get(w.out) \in {[text |-> None, language |-> None],
                               [text |-> Some("hola"), language |-> Some(<<"en">>)]}}

\* What one call of extractWithLLM meets: the completion rejects, the
\* normalized output fails validateData with the given errors (as
\* JSON.stringify prints them), or it passes and is the data
ConcExtractWorlds ==
    {[fault |-> "create_rejects", errors |-> "", data |-> None]}
    \cup {[fault |-> "invalid", errors |-> e, data |-> None] :
             e \in {"[patient/age maximum]", "[patient/sex enum]"}}
    \cup {[fault |-> "none", errors |-> "", data |-> Some(d)] : d \in ExtractionData}

ConcDiagnoseWorlds ==
    {Threw(Some("boom"))} \cup {Returned(d) : d \in {x \in Diagnoses : x.severity = "low"}}

\* return res.status(..).json(..) of the request
Answer(q, r) == [q EXCEPT !.responses = Append(@, r), !.pc = "done"]

\* The language gate and the call of extractService for the request
Gate(q, transcript, language, correlationId) ==
    LET l == [q.loc EXCEPT !.transcript = transcript,
                           !.language = language,
                           !.correlationId = correlationId,
                           !.lang = Some(Nullish(language, esAR)),
                           !.corrId = Some(Nullish(correlationId, GenCorrelationId(0)))]
    IN IF ~IsSupported(primaryLang(l.lang))
       THEN Answer([q EXCEPT !.loc = l], UnsupportedLanguageResponse(Get(l.corrId)))
       ELSE [q EXCEPT !.loc = l,
                      !.exCalls = Append(@, [transcript |-> Get(l.transcript),
                                             language |-> Get(l.lang),
                                             correlationId |-> Get(l.corrId)]),
                      !.pc = "extract"]

\* The handler from the arrival of the body b to its first await or answer
ArriveStep(q, b) ==
    LET p == PipelineBodySchema(b, 0)
        q1 == [q EXCEPT !.body = Some(b), !.parsed = Some(p)]
    IN IF ~p.success THEN Answer(q1, ValidationResponse(p.issues))
       ELSE IF IsTextInput(p.input)
       THEN Gate(q1, TextTranscript(p.input), Some(TextLanguage(p.input)),
                 Some(ResolveCorrelationId(p.input, 0)))
       ELSE [q1 EXCEPT !.trCalls = Append(@, TrInput(p.input)), !.pc = "transcribe"]

\* The handler from the settling of transcribeService to the next await
TranscribeStep(q, w) ==
    LET r == transcribeService(q.trCalls[1], w)
        q1 == [q EXCEPT !.trWorld = Some(w)]
        input == Get(q.parsed).input
    IN IF r.threw THEN Answer(q1, CatchResponse(r.err))
       ELSE IF HasNoText(Get(r.value)) THEN Answer(q1, TranscribeFailureResponse)
       ELSE Gate(q1, Get(r.value).text, Some(AudioLanguage(input, Get(r.value))),
                 Some(ResolveCorrelationId(input, 0)))

\* validateData.errors after validateData ran on the output of the world w:
\* null after a valid output, untouched when the completion rejected
ErrorsAfter(w, errors) ==
    IF w.fault = "invalid" THEN Some(w.errors)
    ELSE IF w.fault = "none" THEN None
    ELSE errors

\* (mutant) validateData.errors is read as it was left before this validation
ErrorsRead_Stale(w, shared) == shared

\* "if (!validateData(normalized)) { ... validateData.errors ?? [] ... }": the
\* errors the request reads, in the same synchronous run as its validation
ErrorsRead(w, shared) == ErrorsAfter(w, shared)

\* The handler from the settling of extractService to the next await; errors
\* is validateData.errors as the request reads it
ExtractStep(q, w, errors) ==
    LET q1 == [q EXCEPT !.exWorld = Some(w)]
    IN IF w.fault = "create_rejects" THEN Answer(q1, CatchResponse(Some("boom")))
       ELSE IF w.fault = "invalid"
       THEN Answer(q1, CatchResponse(Some("LLM no cumple el schema de extraccion: "
                                          \o Nullish(errors, "[]"))))
       ELSE [q1 EXCEPT !.loc.extracted = w.data,
                       !.dgCalls = Append(@,
                           [extraction |-> ExtractionForDiagnose(Get(w.data)),
                            language |-> Get(q.loc.lang),
                            correlationId |-> Get(q.loc.corrId)]),
                       !.pc = "diagnose"]

\* The handler from the settling of diagnoseService to its answer
DiagnoseStep(q, w) ==
    LET r == diagnoseService(q.dgCalls[1], w)
        q1 == [q EXCEPT !.dgWorld = Some(w)]
    IN IF r.threw THEN Answer(q1, CatchResponse(r.err))
       ELSE Answer(q1, SuccessResponse(q.loc, Get(r.value), Get(q.parsed).provider, 0))

\* validateRequest.errors after extractService validated its argument
RequestErrorsAfter(q, errors) ==
    IF q.pc # "extract" THEN errors
    ELSE IF validateRequest(q.exCalls[1]) THEN None
    ELSE Some("[transcript minLength]")

InitConc ==
    /\ env = [PROVIDER |-> None]
    /\ zodV4 = FALSE
    /\ PipelineIdle
    /\ ConcurrencyOff
    /\ ServiceOff

\* Request r arrives
ConcPost(r, b) ==
    /\ requests[r].pc = "idle"
    /\ requests' = [requests EXCEPT ![r] = ArriveStep(@, b)]
    /\ ajvErrors' = [ajvErrors EXCEPT
                        !.validateRequest = RequestErrorsAfter(requests'[r], @)]
    /\ UNCHANGED <<pipelineVars, serviceVars>>

\* The transcribeService call of request r settles
ConcTranscribeDone(r, w) ==
    /\ requests[r].pc = "transcribe"
    /\ requests' = [requests EXCEPT ![r] = TranscribeStep(@, w)]
    /\ ajvErrors' = [ajvErrors EXCEPT
                        !.validateRequest = RequestErrorsAfter(requests'[r], @)]
    /\ UNCHANGED <<pipelineVars, serviceVars>>

\* The completion of request r settles: extractWithLLM validates, extractService
\* returns or throws, the handler goes on
ConcExtractDone(r, w) ==
    /\ requests[r].pc = "extract"
    /\ requests' = [requests EXCEPT
                       ![r] = ExtractStep(@, w, ErrorsRead(w, ajvErrors.validateData))]
    /\ ajvErrors' = [ajvErrors EXCEPT !.validateData = ErrorsAfter(w, @)]
    /\ UNCHANGED <<pipelineVars, serviceVars>>

\* The diagnoseService call of request r settles
ConcDiagnoseDone(r, w) ==
    /\ requests[r].pc = "diagnose"
    /\ requests' = [requests EXCEPT ![r] = DiagnoseStep(@, w)]
    /\ UNCHANGED ajvErrors
    /\ UNCHANGED <<pipelineVars, serviceVars>>

NextConc ==
    \/ \E r \in Reqs, b \in ConcBodies : ConcPost(r, b)
    \/ \E r \in Reqs, w \in ConcTranscribeWorlds : ConcTranscribeDone(r, w)
    \/ \E r \in Reqs, w \in ConcExtractWorlds : ConcExtractDone(r, w)
    \/ \E r \in Reqs, w \in ConcDiagnoseWorlds : ConcDiagnoseDone(r, w)

SpecConc == InitConc /\ [][NextConc]_vars

----------------------------------------------------------------------------
\* Vocabulary of the properties

Validated == IsSome(parsed) /\ Get(parsed).success
Input == Get(parsed).input
TextRequest == Validated /\ IsSome(Input.text)
AudioRequest == Validated /\ ~IsSome(Input.text)
Answered == Len(responses) > 0
LastResponse == responses[Len(responses)]
Resolved == IsSome(loc.lang)
PrimarySubtag == toLowerCase(Get(loc.lang)[1])
Succeeded(res) == IsSome(res) /\ ~Get(res).threw
Failed(res) == IsSome(res) /\ Get(res).threw
IsPrefix(s, t) == Len(s) <= Len(t) /\ \A i \in 1..Len(s) : s[i] = t[i]

----------------------------------------------------------------------------
\* C1: a validated text input never reaches the transcribe adapter, and the
\* transcript given to the extract adapter and returned in the success
\* response is exactly input.text.
C1_TextBypassesTranscribe ==
    TextRequest =>
        /\ trCalls = <<>>
        /\ \A i \in DOMAIN callOrder : callOrder[i] # "transcribe"
        /\ \A i \in DOMAIN exCalls : Some(exCalls[i].transcript) = Get(body).text
        /\ \A i \in DOMAIN responses :
              responses[i].status = 200 => responses[i].transcript = Get(body).text

C1_Witness ==
    /\ TextRequest
    /\ Get(body).text = Some(" ")
    /\ Answered
    /\ LastResponse.status = 200

\* C2: when the resolved language has a primary subtag other than es or en,
\* the answer is HTTP 400, ok:false, error "unsupported language", and neither
\* the extract nor the diagnose adapter is invoked.
C2_UnsupportedLanguageRejected ==
    (Resolved /\ PrimarySubtag \notin {"es", "en"}) =>
        /\ pc = "done"
        /\ Len(responses) = 1
        /\ LastResponse.status = 400
        /\ LastResponse.ok = FALSE
        /\ LastResponse.error = Some("unsupported language")
        /\ exCalls = <<>>
        /\ dgCalls = <<>>

C2_Witness ==
    /\ AudioRequest
    /\ Resolved
    /\ PrimarySubtag = "spanish"
    /\ Answered

\* C3: when the transcribe adapter returns without text (undefined or empty),
\* the answer is HTTP 500, ok:false, step "transcribe"; transcribe was called
\* once only, and extract and diagnose are never invoked.
C3_NoTextStopsPipeline ==
    (Succeeded(trRes) /\ Get(Get(trRes).value).text \in {None, Some("")}) =>
        /\ pc = "done"
        /\ Len(responses) = 1
        /\ LastResponse.status = 500
        /\ LastResponse.ok = FALSE
        /\ LastResponse.step = Some("transcribe")
        /\ Len(trCalls) = 1
        /\ exCalls = <<>>
        /\ dgCalls = <<>>

C3_Witness ==
    /\ Succeeded(trRes)
    /\ Get(Get(trRes).value).text = Some("")
    /\ Answered

\* The bodies the claim C4 names as failing the schema
MalformedBody(b) ==
    \/ ~b.hasInput
    \/ /\ b.text \in {None, Some("")}
       /\ \/ b.audio = None
          \/ Get(b.audio).value = ""
          \/ Get(b.audio).type \notin {"url", "base64"}

\* C4: a body that fails PipelineBodySchema is answered HTTP 400, ok:false,
\* step "validation" with the list of schema issues, and no stage adapter is
\* invoked.
C4_InvalidBodyRejected ==
    /\ (IsSome(body) /\ MalformedBody(Get(body))) => ~Get(parsed).success
    /\ (IsSome(parsed) /\ ~Get(parsed).success) =>
          /\ pc = "done"
          /\ Len(responses) = 1
          /\ LastResponse.status = 400
          /\ LastResponse.ok = FALSE
          /\ LastResponse.step = Some("validation")
          /\ LastResponse.details # {}
          /\ LastResponse.details = Get(parsed).issues
          /\ callOrder = <<>>
          /\ trCalls = <<>> /\ exCalls = <<>> /\ dgCalls = <<>>

C4_Witness ==
    /\ IsSome(body)
    /\ IsSome(Get(body).audio)
    /\ Get(Get(body).audio).value = ""
    /\ Get(body).text = None
    /\ Answered

\* The error field the catch clause must report for a thrown value
ReportedMessage(res) ==
    IF Get(res).err = None THEN "Unexpected error" ELSE Get(Get(res).err)

ThrownAnswer(res) ==
    /\ pc = "done"
    /\ Len(responses) = 1
    /\ LastResponse.status = 500
    /\ LastResponse.ok = FALSE
    /\ LastResponse.step = Some("unknown")
    /\ LastResponse.error = Some(ReportedMessage(res))

\* C5: when the transcribe, extract or diagnose adapter throws, the answer is
\* HTTP 500, ok:false, step "unknown" and error the thrown message (or
\* "Unexpected error" when there is none); no later stage is invoked and no
\* exception leaves the handler.
C5_ThrownErrorsAreCaught ==
    /\ ~escaped
    /\ Failed(trRes) => ThrownAnswer(trRes) /\ exCalls = <<>> /\ dgCalls = <<>>
    /\ Failed(exRes) => ThrownAnswer(exRes) /\ dgCalls = <<>>
    /\ Failed(dgRes) => ThrownAnswer(dgRes)

C5_Witness ==
    /\ Failed(exRes)
    /\ Get(exRes).err = Some("")
    /\ Answered

\* The provider field the success response must carry
ExpectedProvider ==
    IF Get(body).provider # None THEN Get(body).provider
    ELSE IF env.PROVIDER # None THEN env.PROVIDER
    ELSE Some("gemini")

AllStagesSucceeded ==
    /\ Validated
    /\ Resolved
    /\ PrimarySubtag \in {"es", "en"}
    /\ Succeeded(exRes)
    /\ Succeeded(dgRes)

\* C6: a validated request with a supported language whose adapters all succeed
\* is answered HTTP 200 with ok:true, the transcript, the extract adapter's
\* value, the diagnose adapter's value, the resolved correlationId, the provider
\* and the four timings; no other request is answered HTTP 200.
C6_SuccessResponse ==
    /\ AllStagesSucceeded =>
          /\ pc = "done"
          /\ Len(responses) = 1
          /\ LastResponse.status = 200
          /\ LastResponse.ok = TRUE
          /\ LastResponse.transcript = Some(exCalls[1].transcript)
          /\ LastResponse.extracted = Get(exRes).value
          /\ LastResponse.diagnosis = Get(dgRes).value
          /\ LastResponse.correlationId = Some(exCalls[1].correlationId)
          /\ LastResponse.provider = ExpectedProvider
          /\ IsSome(LastResponse.pipeline)
          /\ DOMAIN Get(LastResponse.pipeline) = {"transcribe", "extract", "diagnose", "total"}
          /\ \A k \in DOMAIN Get(LastResponse.pipeline) :
                Get(LastResponse.pipeline)[k] \in 0..now
    /\ \A i \in DOMAIN responses :
          responses[i].status = 200 =>
              /\ AllStagesSucceeded
              /\ AudioRequest => Succeeded(trRes)

C6_Witness ==
    /\ AudioRequest
    /\ AllStagesSucceeded
    /\ Get(body).correlationId = None
    /\ IsSome(Get(Get(exRes).value).patient)
    /\ now > 0

\* C7: the adapters are invoked in the order transcribe, extract, diagnose
\* (extract, diagnose for text input), each at most once; extract starts only
\* after transcribe returned text, diagnose only after extract returned.
C7_StagesRunInOrderOnce ==
    /\ ~Validated => callOrder = <<>>
    /\ TextRequest => IsPrefix(callOrder, <<"extract", "diagnose">>)
    /\ AudioRequest => IsPrefix(callOrder, <<"transcribe", "extract", "diagnose">>)
    /\ Len(trCalls) = Cardinality({i \in DOMAIN callOrder : callOrder[i] = "transcribe"})
    /\ Len(exCalls) = Cardinality({i \in DOMAIN callOrder : callOrder[i] = "extract"})
    /\ Len(dgCalls) = Cardinality({i \in DOMAIN callOrder : callOrder[i] = "diagnose"})
    /\ Len(trCalls) <= 1 /\ Len(exCalls) <= 1 /\ Len(dgCalls) <= 1
    /\ (AudioRequest /\ exCalls # <<>>) =>
          /\ Succeeded(trRes)
          /\ Get(Get(trRes).value).text \notin {None, Some("")}
    /\ dgCalls # <<>> => Succeeded(exRes)

C7_Witness ==
    /\ AudioRequest
    /\ callOrder = <<"transcribe", "extract">>
    /\ Failed(exRes)
    /\ pc = "done"

C9_EveryResponseCarriesCorrelationId ==
    Validated =>
        \A i \in DOMAIN responses :
            /\ IsSome(responses[i].correlationId)
            /\ Get(body).correlationId # None =>
                  responses[i].correlationId = Get(body).correlationId
            /\ IsSome(loc.corrId) => responses[i].correlationId = loc.corrId

\* The adapter reported a language the transcription detected
Detected == IsSome(trOut) /\ normalizeLanguage(Get(trOut).language) # None

\* C10 (as claimed): for audio input with a caller-supplied (non-empty) language
\* and a detected language, the language used for the gate, for extract and
\* for diagnose is the detected one.
C10_DetectedLanguagePreferred ==
    (AudioRequest /\ Resolved /\ Detected
        /\ Get(body).language \notin {None, Some(EmptyLocale)}) =>
        /\ loc.lang = Get(Get(trRes).value).language
        /\ \A i \in DOMAIN exCalls : Some(exCalls[i].language) = Get(Get(trRes).value).language
        /\ \A i \in DOMAIN dgCalls : Some(dgCalls[i].language) = Get(Get(trRes).value).language

\* The transcription came back with text and without any language: neither
\* one detected nor one passed in by the handler
ReturnedTextNoLanguage ==
    /\ Succeeded(trRes)
    /\ Get(Get(trRes).value).text \notin {None, Some("")}
    /\ Get(Get(trRes).value).language = Some(EmptyLocale)

UnsupportedAnswer ==
    \E i \in DOMAIN responses :
        responses[i].status = 400 /\ responses[i].error = Some("unsupported language")

\* C12 (as claimed): when the unsupported-language response is returned, no
\* external capability (transcribe, extract, diagnose) was invoked in that
\* request, for audio input as well as for text input.
C12_GateBeforeAnyCall ==
    UnsupportedAnswer => (trCalls = <<>> /\ exCalls = <<>> /\ dgCalls = <<>>)

\* C12 (amended): when the unsupported-language response is returned, neither
\* extract nor diagnose was invoked; for text input transcribe was not invoked
\* either, for audio input transcribe was invoked exactly once and had returned
\* text before the gate ran.
C12_GateBeforeExtract ==
    UnsupportedAnswer =>
        /\ callOrder \in {<<>>, <<"transcribe">>}
        /\ exCalls = <<>> /\ dgCalls = <<>>
        /\ exRes = None /\ dgRes = None
        /\ TextRequest => trCalls = <<>>
        /\ AudioRequest =>
              /\ Len(trCalls) = 1
              /\ Succeeded(trRes)
              /\ Get(Get(trRes).value).text \notin {None, Some("")}

C12_Witness ==
    /\ UnsupportedAnswer
    /\ AudioRequest
    /\ Len(trCalls) = 1
    /\ pc = "done"

\* C14: the provider field of the success response is options.provider when
\* the caller specified it, otherwise the environment's PROVIDER when it is
\* set, otherwise "gemini".
C14_ProviderPrecedence ==
    \A i \in DOMAIN responses :
        responses[i].status = 200 =>
            LET specified == IsSome(Get(body).provider)
            IN /\ specified => responses[i].provider = Get(body).provider
               /\ (~specified /\ IsSome(env.PROVIDER)) =>
                      responses[i].provider = env.PROVIDER
               /\ (~specified /\ ~IsSome(env.PROVIDER)) =>
                      responses[i].provider = Some("gemini")

C14_Witness ==
    /\ Answered
    /\ LastResponse.status = 200
    /\ Get(body).provider = None
    /\ env.PROVIDER = Some("")
    /\ LastResponse.provider = Some("")

\* C13: whatever the extract adapter returned, the extraction handed to
\* diagnose has symptoms and riskFlags as arrays (the adapter's when present,
\* [] when absent, undefined or null) and patient, onsetDays and notes as the
\* adapter gave them.
C13_ArraysDefaulted ==
    spc = "done" =>
        LET x == Get(sreq)
            y == Get(Get(sout).value)
        IN /\ y.symptoms = (IF x.symptoms \in {None, Null} THEN Some(<<>>) ELSE x.symptoms)
           /\ y.riskFlags = (IF x.riskFlags \in {None, Null} THEN Some(<<>>) ELSE x.riskFlags)
           /\ y.symptoms \notin {None, Null}
           /\ y.riskFlags \notin {None, Null}
           /\ y.patient = x.patient
           /\ y.onsetDays = x.onsetDays
           /\ y.notes = x.notes

C13_Witness ==
    /\ spc = "done"
    /\ Get(sreq).symptoms = None
    /\ Get(sreq).riskFlags = Null
    /\ Get(sreq).patient # None
    /\ Get(Get(sout).value).symptoms = Some(<<>>)

----------------------------------------------------------------------------
\* Vocabulary of the properties of extractService

\* The model answered with a JSON object and extractWithLLM has settled
ModelAnsweredObject ==
    /\ spc = "done"
    /\ IsSome(sext)
    /\ Get(sext).fault = "none"
    /\ kind(Get(sext).parsed) = "object"

ModelOutput == payload(Get(sext).parsed)
Normalized == payload(Get(snorm))

\* A bare string as the array holding it
OneElementArray(v) == IF kind(v) = "string" THEN Arr(<<payload(v)>>) ELSE v

\* The output uses synonym keys only and gives symptoms or riskFlags as a bare
\* string
SynonymsOnly(o) ==
    /\ o.symptoms = Undefined /\ o.riskFlags = Undefined
    /\ o.notes = Undefined /\ o.patient = Undefined
    /\ kind(o.sintomas) = "string" \/ kind(o.riesgos) = "string"
    /\ kind(o.paciente) \in {"undefined", "object"}
    /\ kind(o.paciente) = "object" =>
          /\ payload(o.paciente).sex = Undefined
          /\ Undefined \in {payload(o.paciente).genero, payload(o.paciente).sexo}

\* The same output written with the canonical keys and one-element arrays
Canonical(o) ==
    [BlankObject EXCEPT
        !.symptoms = OneElementArray(o.sintomas),
        !.riskFlags = OneElementArray(o.riesgos),
        !.notes = o.observaciones,
        !.onsetDays = o.onsetDays,
        !.extra = o.extra,
        !.patient = IF o.paciente = Undefined THEN Undefined
                    ELSE LET q == payload(o.paciente)
                         IN Obj([q EXCEPT !.sex = IF q.genero # Undefined
                                                  THEN q.genero ELSE q.sexo,
                                          !.genero = Undefined,
                                          !.sexo = Undefined])]

\* C15 (as claimed): a model output that uses only synonym keys and gives
\* symptoms or riskFlags as a bare string yields, after normalization and
\* validation, the same outcome as the output written with the canonical keys
\* and one-element arrays.
C15_SynonymRoundTrip ==
    (ModelAnsweredObject /\ SynonymsOnly(ModelOutput)) =>
        Get(sout) = extractWithLLM([fault |-> "none",
                                    parsed |-> Obj(Canonical(ModelOutput))])

\* The normalized output holds a key the Extraction schema does not declare,
\* at the top level or inside patient
HasUndeclaredField ==
    /\ ModelAnsweredObject
    /\ \/ ObjectExtras(Normalized) # {}
       \/ /\ kind(Normalized.patient) = "object"
          /\ PatientExtras(payload(Normalized.patient)) # {}

\* C16 (as claimed): a normalized output holding an undeclared field is
\* rejected by the validation: extractService throws.
C16_UndeclaredFieldRejected ==
    HasUndeclaredField => Failed(sout)

\* The normalized output without its undeclared keys
Declared(o) ==
    [BlankObject EXCEPT
        !.symptoms = o.symptoms, !.riskFlags = o.riskFlags, !.notes = o.notes,
        !.onsetDays = o.onsetDays,
        !.patient = IF kind(o.patient) # "object" THEN o.patient
                    ELSE Obj([BlankPatient EXCEPT !.age = payload(o.patient).age,
                                                  !.sex = payload(o.patient).sex])]

\* C16 (amended): an undeclared field of the normalized output is removed, not
\* rejected: extractService returns exactly when the declared fields satisfy
\* the schema, and the extraction it returns holds declared fields only.
C16_UndeclaredFieldRemoved ==
    HasUndeclaredField =>
        LET strict == DataSchema(Obj(Declared(Normalized)), FALSE)
        IN /\ Succeeded(sout) <=> strict.valid
           /\ Succeeded(sout) =>
                 /\ Get(Get(sout).value) = strict.data
                 /\ ObjectExtras(payload(Get(Get(sout).value))) = {}

C16_Witness ==
    /\ HasUndeclaredField
    /\ ModelOutput.extra # Undefined
    /\ Succeeded(sout)

ExtractRequest == Get(sreq)

\* The transcript is missing or empty, or language or correlationId is missing
MalformedExtractRequest ==
    /\ spc \in {"request", "llm", "done"}
    /\ \/ ExtractRequest.transcript \in {Undefined, Str("")}
       \/ ExtractRequest.language = Undefined
       \/ ExtractRequest.correlationId = Undefined

BadRequest(res) ==
    Failed(res) /\ Get(res).err = Some("Bad request en extractService")

\* C17: for a request whose transcript is missing or empty, or whose language
\* or correlationId is missing, extractService throws "Bad request" and
\* extractWithLLM is never invoked.
C17_MalformedRequestNeverReachesModel ==
    MalformedExtractRequest =>
        /\ scalls = 0
        /\ spc # "llm"
        /\ sext = None
        /\ spc = "done" => BadRequest(sout)

C17_Witness ==
    /\ MalformedExtractRequest
    /\ ExtractRequest.transcript = Str("dolor")
    /\ ExtractRequest.language = Str("es-AR")
    /\ spc = "done"
    /\ BadRequest(sout)

\* C18 (as claimed): request validation coerces nothing: a request whose
\* language or correlationId is a number or a boolean is rejected, and the
\* validation leaves the input object as it was.
C18_NoCoercion ==
    (/\ spc \in {"llm", "done"}
     /\ {kind(ExtractRequest.language), kind(ExtractRequest.correlationId)}
            \cap {"number", "boolean"} # {}) =>
        /\ scalls = 0
        /\ BadRequest(sout)
        /\ sreqAfter = sreq

\* The strings that denote a number, and the number they denote
NumericStrings == {"30", "200"}
Denoted(str) == IF str = "30" THEN 30 ELSE 200

\* v is absent, or one of the given values of the model output, possibly
\* wrapped into a one-element array
TakenFrom(v, sources) ==
    v \in {Undefined} \cup sources \cup {OneElementArray(x) : x \in sources}

\* The normalized patient p comes from the patient object q of the output
PatientTakenFrom(p, q) ==
    /\ kind(q) = "object"
    /\ p.sex \in {Undefined, payload(q).sex, payload(q).genero, payload(q).sexo}
    /\ p.genero = payload(q).genero
    /\ p.sexo = payload(q).sexo
    /\ p.extra = payload(q).extra
    /\ \/ p.age = payload(q).age
       \/ /\ kind(payload(q).age) = "string"
          /\ payload(payload(q).age) \in NumericStrings
          /\ p.age = Num(Denoted(payload(payload(q).age)))
    /\ (kind(payload(q).age) = "string" /\ payload(payload(q).age) \notin NumericStrings) =>
          p.age = payload(q).age

\* C19 (as claimed): every field of the normalized output is absent or is the
\* value the output gave under the canonical key or a synonym, changed at most
\* by wrapping a bare string into an array or by turning a numeric age string
\* into its number; an age string that is not numeric (the empty or blank
\* string included) stays as it was.
C19_NormalizerNeverFabricates ==
    ModelAnsweredObject =>
        LET o == ModelOutput
            n == Normalized
        IN /\ TakenFrom(n.symptoms, {o.symptoms, o.sintomas})
           /\ TakenFrom(n.riskFlags, {o.riskFlags, o.riesgos})
           /\ n.notes \in {Undefined, o.notes, o.observaciones}
           /\ n.onsetDays = o.onsetDays
           /\ n.extra = o.extra
           /\ \/ n.patient \in {Undefined, o.patient, o.paciente}
              \/ /\ kind(n.patient) = "object"
                 /\ \E q \in {o.patient, o.paciente} :
                        PatientTakenFrom(payload(n.patient), q)

----------------------------------------------------------------------------
\* Vocabulary of the properties of diagnoseService

\* A backend returned a text and the parse has run
BackendAnswered ==
    /\ spc = "done"
    /\ IsSome(sext)
    /\ Get(sext).fault = "none"

RawText == Get(sext).text

\* The text is a JSON body inside a json fence or a bare fence
FencedJson(raw) ==
    /\ raw.body.json
    /\ raw.pre \in {<<FenceJson, LineBreak>>, <<Fence, LineBreak>>,
                     <<FenceJson>>, <<Fence>>}
    /\ raw.post \in {<<LineBreak, Fence>>, <<Fence>>}

\* C20 (as claimed): a backend text that is valid JSON inside a json fence or
\* a bare fence parses to the object the JSON denotes; the parse is attempted
\* at most twice, and when the second attempt fails diagnoseService throws
\* without a further call of a backend.
C20_FencedJsonParsesAlike ==
    /\ sparses <= 2
    /\ scalls <= 1
    /\ BackendAnswered =>
          /\ FencedJson(RawText) =>
                /\ sparses = 2
                /\ Get(snorm) = Returned(RawText.body.value)
          /\ (sparses = 2 /\ Get(snorm).threw) =>
                (Failed(sout) /\ scalls = 1)

\* The backend text was parsed to a JSON object
ParsedObject ==
    /\ BackendAnswered
    /\ ~Get(snorm).threw
    /\ kind(Get(Get(snorm).value)) = "object"

BackendOutput == payload(Get(Get(snorm).value))

SeverityLevels == {<<"low">>, <<"moderate">>, <<"high">>}

\* C21: every value diagnoseService returns has a string summary, arrays as
\* differentials and recommendations ([] where the backend omitted them) and a
\* severity among low, moderate, high; when the parsed output lacks summary or
\* has a missing or unknown severity, diagnoseService throws.
C21_DiagnosisSchema ==
    /\ (spc = "done" /\ Succeeded(sout)) =>
          LET d == Get(Get(sout).value)
          IN /\ ParsedObject
             /\ kind(d.summary) = "string"
             /\ kind(d.differentials) = "array"
             /\ kind(d.recommendations) = "array"
             /\ kind(d.severity) = "string"
             /\ payload(d.severity) \in SeverityLevels
             /\ BackendOutput.differentials = Undefined => d.differentials = Arr(<<>>)
             /\ BackendOutput.recommendations = Undefined => d.recommendations = Arr(<<>>)
    /\ (/\ ParsedObject
        /\ \/ BackendOutput.summary = Undefined
           \/ BackendOutput.severity = Undefined
           \/ /\ kind(BackendOutput.severity) = "string"
              /\ payload(BackendOutput.severity) \notin SeverityLevels) =>
          Failed(sout)

C21_Witness ==
    /\ spc = "done"
    /\ Succeeded(sout)
    /\ BackendOutput.differentials = Undefined
    /\ sparses = 2
    /\ Get(Get(sout).value).differentials = Arr(<<>>)

\* C22: one diagnoseService call invokes exactly one backend, chosen by the
\* PROVIDER flag alone: OpenAI when the lower-cased flag is "openai", Gemini
\* for any other value and when it is unset; when the backend fails no other
\* backend is tried.
C22_OneBackendByFlag ==
    LET flagged == IF env.PROVIDER \in {Some("openai"), Some("OpenAI")}
                   THEN "openai" ELSE "gemini"
    IN /\ Len(backends) <= 1
       /\ Len(backends) = scalls
       /\ spc = "backend" => backends = <<flagged>>
       /\ (spc = "done" /\ IsSome(sext)) => backends = <<flagged>>
       /\ (spc = "done" /\ ~IsSome(sext)) => backends = <<>>

C22_Witness ==
    /\ spc = "done"
    /\ env.PROVIDER = Some("OpenAI")
    /\ IsSome(sext)
    /\ Get(sext).fault = "rejects"
    /\ backends = <<"openai">>

\* C25: an input that passed validation has exactly one shape, a non-empty
\* text or an audio object with a non-empty value, never both and never
\* neither; a body carrying both text and audio is not processed as both.
C25_ExactlyOneShape ==
    Validated =>
        /\ IsSome(Input.text) # IsSome(Input.audio)
        /\ IsSome(Input.text) => Get(Input.text) # ""
        /\ IsSome(Input.audio) =>
              /\ Get(Input.audio).value # ""
              /\ Get(Input.audio).type \in {"url", "base64"}
        /\ IsSome(Input.text) => trCalls = <<>>
        /\ IsSome(Input.audio) =>
              /\ Len(trCalls) = 1
              /\ \A i \in DOMAIN exCalls :
                    Some(exCalls[i].transcript) # Get(body).text

C25_Witness ==
    /\ Validated
    /\ Get(body).text = Some("Paciente")
    /\ IsSome(Get(body).audio)
    /\ Get(Get(body).audio).value = "QUJD"
    /\ IsSome(Input.text)
    /\ ~IsSome(Input.audio)
    /\ trCalls = <<>>
    /\ pc = "done"

\* C27: the gate decides on the primary subtag, while the language handed to
\* the extract and the diagnose adapters is the full resolved tag (region
\* included), the same value for both.
C27_AdaptersGetFullTag ==
    Resolved =>
        /\ IsSome(Get(body).language) => loc.lang = Get(body).language
        /\ exCalls # <<>> <=> PrimarySubtag \in {"es", "en"}
        /\ \A i \in DOMAIN exCalls : exCalls[i].language = Get(loc.lang)
        /\ \A i \in DOMAIN dgCalls : dgCalls[i].language = Get(loc.lang)
        /\ \A i \in DOMAIN exCalls, j \in DOMAIN dgCalls :
              exCalls[i].language = dgCalls[j].language

C27_Witness ==
    /\ Resolved
    /\ Get(body).language = Some(<<"EN", "US">>)
    /\ Len(exCalls) = 1
    /\ Len(dgCalls) = 1
    /\ exCalls[1].language = <<"EN", "US">>
    /\ dgCalls[1].language = <<"EN", "US">>

\* C28: the provider reported in the success response names the backend the
\* diagnose stage invoked, whatever options.provider and PROVIDER hold.
C28_ReportedProviderIsInvoked ==
    \A i \in DOMAIN responses :
        responses[i].status = 200 =>
            /\ Len(backends) = 1
            /\ IsSome(responses[i].provider)
            /\ toLowerCase(Get(responses[i].provider)) = backends[1]

\* The caller asked for OpenAI, PROVIDER is unset: the response reports
\* "openai" while the Gemini backend was the one invoked
C28_ReportedButNotInvoked ==
    /\ Answered
    /\ LastResponse.status = 200
    /\ Get(body).provider = Some("openai")
    /\ env.PROVIDER = None
    /\ LastResponse.provider = Some("openai")
    /\ backends = <<"gemini">>

\* C30: in normalizeExtractionData a synonym key never overrides a canonical
\* key that is present: with both present the normalized field holds the
\* canonical value, also when that value is an empty string or another falsy
\* value.
C30_CanonicalKeyWins ==
    ModelAnsweredObject =>
        /\ ModelOutput.notes # Undefined => Normalized.notes = ModelOutput.notes
        /\ ModelOutput.symptoms # Undefined =>
              Normalized.symptoms \in {ModelOutput.symptoms,
                                       Arr(<<payload(ModelOutput.symptoms)>>)}
        /\ ModelOutput.riskFlags # Undefined =>
              Normalized.riskFlags \in {ModelOutput.riskFlags,
                                        Arr(<<payload(ModelOutput.riskFlags)>>)}
        /\ (ModelOutput.patient # Undefined /\ kind(ModelOutput.patient) = "object"
               /\ payload(ModelOutput.patient).sex # Undefined) =>
              payload(Normalized.patient).sex = payload(ModelOutput.patient).sex

\* notes: "" together with observaciones: "obs" is normalized to notes: "obs"
C30_SynonymOverridesEmpty ==
    /\ ModelAnsweredObject
    /\ ModelOutput.notes = Str("")
    /\ ModelOutput.observaciones = Str("obs")
    /\ Normalized.notes = Str("obs")

\* The language tag as the body and the transcribe response determine it
TagOf(b, tr) ==
    IF IsSome(b.language) THEN Get(b.language)
    ELSE IF zodV4 THEN esAR
    ELSE IF IsSome(tr) /\ ~Get(tr).threw
    THEN Nullish(Get(Get(tr).value).language, esAR)
    ELSE esAR

\* The HTTP status as the body and the adapter responses determine it
StatusOf(b, tr, ex, dg) ==
    IF Issues(b) # {} THEN 400
    ELSE IF Failed(tr) THEN 500
    ELSE IF Succeeded(tr) /\ Get(Get(tr).value).text \in {None, Some("")} THEN 500
    ELSE IF toLowerCase(TagOf(b, tr)[1]) \notin {"es", "en"} THEN 400
    ELSE IF Failed(ex) \/ Failed(dg) THEN 500
    ELSE 200

\* C23: two invocations with identical bodies and identical adapter responses
\* give the same HTTP status and the same extracted and diagnosis payloads,
\* whatever the clock values: the three are functions of the body and the
\* adapter responses alone.
C23_Deterministic ==
    pc = "done" =>
        /\ Len(responses) = 1
        /\ LastResponse.status = StatusOf(Get(body), trRes, exRes, dgRes)
        /\ LastResponse.status = 200 =>
              /\ LastResponse.extracted = Get(exRes).value
              /\ LastResponse.diagnosis = Get(dgRes).value
        /\ LastResponse.status # 200 =>
              /\ LastResponse.extracted = None
              /\ LastResponse.diagnosis = None

C23_Witness ==
    /\ pc = "done"
    /\ LastResponse.status = 200
    /\ now = MaxClock
    /\ Get(LastResponse.pipeline).total > 0
    /\ Get(body).correlationId = None

\* C26: on the standalone diagnose endpoint a body failing
\* DiagnoseRequestSchema is answered 400 with error "BAD_REQUEST" and no
\* backend call; a valid body whose diagnosis succeeds is answered 200 with
\* ok:true, the diagnosis as data and the body's correlationId; any thrown
\* error is answered 500 with error "INTERNAL_ERROR".
C26_DiagnoseEndpoint ==
    LET b == Get(body)
        valid == IsSome(b.extraction) /\ ExtractionSchemaOk(Get(b.extraction))
    IN /\ spc # "done" => responses = <<>>
       /\ spc = "done" => Len(responses) = 1
       /\ ~valid =>
             /\ backends = <<>> /\ scalls = 0 /\ sext = None
             /\ spc = "done" =>
                   /\ responses[1].status = 400
                   /\ responses[1].ok = FALSE
                   /\ responses[1].error = Some("BAD_REQUEST")
       /\ (valid /\ spc = "done" /\ Succeeded(sout)) =>
             /\ responses[1].status = 200
             /\ responses[1].ok = TRUE
             /\ responses[1].data = Get(sout).value
             /\ responses[1].correlationId = b.correlationId
       /\ (valid /\ spc = "done" /\ ~Succeeded(sout)) =>
             /\ Failed(sout)
             /\ responses[1].status = 500
             /\ responses[1].ok = FALSE
             /\ responses[1].error = Some("INTERNAL_ERROR")

C26_Witness ==
    /\ spc = "done"
    /\ Succeeded(sout)
    /\ Get(body).correlationId = Some("abc-123")
    /\ responses[1].status = 200
    /\ responses[1].correlationId = Some("abc-123")

\* C29: provided every adapter call eventually returns or throws, a POST /
\* request eventually receives exactly one response; once the response is
\* sent the request is terminal: no adapter is invoked and no second
\* response is written.
C29_OneResponseThenTerminal ==
    /\ IsSome(body) ~> (pc = "done" /\ Len(responses) = 1)
    /\ [][Len(responses) > 0 =>
             /\ pc = "done"
             /\ UNCHANGED <<responses, trCalls, exCalls, dgCalls, callOrder, backends>>]_vars
    /\ [](Len(responses) <= 1)

C29_Witness ==
    /\ pc = "done"
    /\ Len(responses) = 1
    /\ callOrder = <<"transcribe", "extract", "diagnose">>
    /\ Failed(dgRes)

\* The request served alone: the same body and the same adapter behaviour,
\* with no other request touching the validators
Alone(q) ==
    LET q0 == ArriveStep(IdleRequest, Get(q.body))
        q1 == IF q0.pc = "transcribe" /\ IsSome(q.trWorld)
              THEN TranscribeStep(q0, Get(q.trWorld)) ELSE q0
        q2 == IF q1.pc = "extract" /\ IsSome(q.exWorld)
              THEN ExtractStep(q1, Get(q.exWorld),
                               ErrorsAfter(Get(q.exWorld), NoAjvErrors.validateData))
              ELSE q1
    IN IF q2.pc = "diagnose" /\ IsSome(q.dgWorld)
       THEN DiagnoseStep(q2, Get(q.dgWorld)) ELSE q2

\* C24: requests served concurrently are independent: under every
\* interleaving at the awaits, the response and the adapter arguments of each
\* request are those it gets when served alone; the module-level validators
\* and their errors property never show a request the validation result of
\* another.
C24_RequestsIndependent ==
    \A r \in Reqs :
        IsSome(requests[r].body) =>
            /\ requests[r].responses = Alone(requests[r]).responses
            /\ requests[r].trCalls = Alone(requests[r]).trCalls
            /\ requests[r].exCalls = Alone(requests[r]).exCalls
            /\ requests[r].dgCalls = Alone(requests[r]).dgCalls
            /\ requests[r].pc = Alone(requests[r]).pc
            /\ Len(requests[r].responses) <= 1

\* Both requests failed the data validation with different errors, the second
\* one while the errors of the first were still in validateData.errors
C24_Witness ==
    /\ requests[1].pc = "done"
    /\ requests[2].pc = "done"
    /\ IsSome(requests[1].exWorld)
    /\ IsSome(requests[2].exWorld)
    /\ Get(requests[1].exWorld).fault = "invalid"
    /\ Get(requests[2].exWorld).fault = "invalid"
    /\ Get(requests[1].exWorld).errors # Get(requests[2].exWorld).errors
    /\ ajvErrors.validateData = Some(Get(requests[2].exWorld).errors)
    /\ requests[1].responses[1].error =
          Some("LLM no cumple el schema de extraccion: [patient/age maximum]")

====
